---- MODULE Spec2Model ----
(***************************************************************************)
(* Retrigger: the shared-memory ring of retrigger-daemon/src/ipc/mod.rs    *)
(* (ZeroCopyRing, RingHeader, SerializedFileEvent) as a state machine.     *)
(*                                                                         *)
(* Two instances map the same file: "prod" (created by create_producer)    *)
(* and "cons" (created by create_consumer).  Every access to the shared    *)
(* header or to a slot is one step of the instance that performs it, so    *)
(* that producer and consumer interleave between any two shared accesses.  *)
(* Arithmetic on u32 wraps (the release profile of the build).             *)
(*                                                                         *)
(* The daemon's event-processing task (daemon.rs: event_processing_loop,   *)
(* process_event_batch) feeds the producer instance; the watcher's filter  *)
(* (retrigger-system: should_process_event) decides which events are sent. *)
(***************************************************************************)
EXTENDS Integers, Sequences, FiniteSets, TLC

VARIABLES
    header,     \* RingHeader in the mapped file
    slots,      \* the slot array behind the header: index -> SerializedFileEvent
    writing,    \* slot indices whose bytes are partly written (ptr::write under way)
    inst,       \* per ZeroCopyRing instance: lifetime, position in a call, locals
    efd,        \* per instance: the counter of the eventfd it created
    config,     \* ZeroCopyConfig the instances were created with
    pushed,     \* history: records published by a write_pos store, in order
    popped,     \* history: results of pop released by a read_pos store, in order
    counts,     \* history: the producer's push calls begun / returned true / returned false
    writers,    \* history: header field -> instances that stored to it
    rt,         \* the serialisation round trip: input event, slot image, output
    pl,         \* the event-processing task of the daemon: channel, batch, position
    flt,        \* the watcher's EventFilter, its last_events map and the clock
    cache,      \* the FileEventProcessor: hash_cache, directory_cache, config, clock
    eng         \* the HashEngine: its strategy and the last hash call

vars == <<header, slots, writing, inst, efd, config, pushed, popped, counts, writers, rt, pl, flt, cache, eng>>

----------------------------------------------------------------------------
(* Bounds of the model *)

MaxCapacity == 3
MaxPushes == 4
MaxFillCapacity == 4
MaxFillPushes == 5
MaxTail == 3
MaxEvents == 4
\* batch_size of event_processing_loop (100) and the capacity of the watcher's
\* broadcast channel (10_000), scaled down.
BatchSize == 2
ChannelCapacity == 2
MaxFilterCalls == 3
\* The cache: clock ticks per second, last tick, calls of a run.
TicksPerSecond == 2
MaxNow == 3
MaxCacheOps == 3
MaxEvictOps == 7
MaxEnrichOps == 2
MaxConcOps == 3

(* Program constants *)

MAGIC_NUMBER == 1381257799
VERSION == 1
MaxPathBytes == 511
U16Max == 65535

Min(a, b) == IF a < b THEN a ELSE b

Instances == {"prod", "cons"}

\* std::process::id() of the process that owns the instance; 0 is "none".
Pid(i) == IF i = "prod" THEN 101 ELSE 202

----------------------------------------------------------------------------
(* Values.  A u64 whose narrowing to u32 matters (the event size) is kept  *)
(* as four 16-bit limbs, most significant first; a u32 as two limbs.       *)

\* min(x, u32::MAX)
SaturateU32(x) == IF x[1] = 0 /\ x[2] = 0 THEN <<x[3], x[4]>> ELSE <<U16Max, U16Max>>

\* `x as u32`: the low 32 bits.
AsU32(x) == <<x[3], x[4]>>

U64Of(n) == <<0, 0, 0, n>>

(* A path is its UTF-8 bytes: `prefix` ASCII bytes followed by `tail`, a   *)
(* short sequence of byte classes: "a" ASCII, "L" lead byte of a two-byte  *)
(* character, "E" lead byte of a three-byte character, "T" continuation.   *)
(* "invalid_path" stands for the twelve bytes of that literal.             *)

ByteClasses == {"a", "L", "E", "T"}

\* std::str::from_utf8(bytes).is_ok(), on the bytes after the ASCII prefix
RECURSIVE ValidTail(_)
ValidTail(t) ==
    IF t = <<>> THEN TRUE
    ELSE IF t[1] = "a" \/ t[1] = "invalid_path" THEN ValidTail(Tail(t))
    ELSE IF t[1] = "L" THEN Len(t) >= 2 /\ t[2] = "T" /\ ValidTail(SubSeq(t, 3, Len(t)))
    ELSE IF t[1] = "E" THEN Len(t) >= 3 /\ t[2] = "T" /\ t[3] = "T"
                            /\ ValidTail(SubSeq(t, 4, Len(t)))
    ELSE FALSE

RECURSIVE NormPath(_)
NormPath(p) ==
    IF p.tail # <<>> /\ p.tail[1] = "a"
    THEN NormPath([prefix |-> p.prefix + 1, tail |-> Tail(p.tail)])
    ELSE p

PathLen(p) == p.prefix + Len(p.tail)

\* bytes[..n]
TakeBytes(p, n) ==
    IF n <= p.prefix THEN [prefix |-> n, tail |-> <<>>]
    ELSE NormPath([prefix |-> p.prefix, tail |-> SubSeq(p.tail, 1, Min(n - p.prefix, Len(p.tail)))])

InvalidPath == [prefix |-> 0, tail |-> <<"invalid_path">>]

\* Path::to_string_lossy: the path itself when it is valid UTF-8; otherwise every
\* ill-formed byte becomes U+FFFD (EF BF BD).
RECURSIVE LossyTail(_)
LossyTail(t) ==
    IF t = <<>> THEN <<>>
    ELSE IF t[1] = "a" THEN <<"a">> \o LossyTail(Tail(t))
    ELSE IF t[1] = "L" /\ Len(t) >= 2 /\ t[2] = "T"
         THEN <<"L", "T">> \o LossyTail(SubSeq(t, 3, Len(t)))
    ELSE IF t[1] = "E" /\ Len(t) >= 3 /\ t[2] = "T" /\ t[3] = "T"
         THEN <<"E", "T", "T">> \o LossyTail(SubSeq(t, 4, Len(t)))
    ELSE <<"E", "T", "T">> \o LossyTail(Tail(t))

ToStringLossy(p) == NormPath([prefix |-> p.prefix, tail |-> LossyTail(p.tail)])

EventTypes == {"Created", "Modified", "Deleted", "Moved", "MetadataChanged"}

NoHash == [some |-> FALSE, hash |-> 0, size |-> <<0, 0>>, is_incremental |-> FALSE]

SomeHash(h, sz, inc) == [some |-> TRUE, hash |-> h, size |-> sz, is_incremental |-> inc]

\* EnhancedFileEvent { system_event: SystemEvent, hash: Option<HashResult>, processing_time_ns }
EnhancedFileEvent(path, kind, ts, size, isdir, hash, ptime) ==
    [system_event |-> [path |-> path, event_type |-> kind, timestamp |-> ts,
                       size |-> size, is_directory |-> isdir],
     hash |-> hash,
     processing_time_ns |-> ptime]

----------------------------------------------------------------------------
(* SerializedFileEvent and the two conversions *)

EventTypeCode(kind) ==
    CASE kind = "Created" -> 0
      [] kind = "Modified" -> 1
      [] kind = "Deleted" -> 2
      [] kind = "Moved" -> 3
      [] kind = "MetadataChanged" -> 4

EventTypeOfCode(code) ==
    CASE code = 0 -> "Created"
      [] code = 1 -> "Modified"
      [] code = 2 -> "Deleted"
      [] code = 3 -> "Moved"
      [] code = 4 -> "MetadataChanged"
      [] OTHER -> "Modified"

\* std::cmp::min(path_bytes.len(), 511)
PathLimit(n) == Min(n, MaxPathBytes)

\* impl From<&EnhancedFileEvent> for SerializedFileEvent
Serialize(event) ==
    LET path_string == ToStringLossy(event.system_event.path)
        path_len == PathLimit(PathLen(path_string))
    IN [timestamp |-> event.system_event.timestamp,
        event_type |-> EventTypeCode(event.system_event.event_type),
        path_len |-> path_len,
        size |-> event.system_event.size,
        is_directory |-> IF event.system_event.is_directory THEN 1 ELSE 0,
        hash_present |-> IF event.hash.some THEN 1 ELSE 0,
        hash_value |-> IF event.hash.some THEN event.hash.hash ELSE 0,
        path_data |-> TakeBytes(path_string, path_len)]

\* impl From<&SerializedFileEvent> for EnhancedFileEvent
Deserialize(ser) ==
    LET bytes == TakeBytes(ser.path_data, ser.path_len)
        path_str == IF ValidTail(bytes.tail) THEN bytes ELSE InvalidPath
        hash == IF ser.hash_present = 1
                THEN SomeHash(ser.hash_value, AsU32(ser.size), FALSE)
                ELSE NoHash
    IN EnhancedFileEvent(path_str, EventTypeOfCode(ser.event_type), ser.timestamp,
                         ser.size, ser.is_directory = 1, hash, 0)

\* A slot of the freshly truncated file: all bytes zero.
ZeroSlot ==
    [timestamp |-> 0, event_type |-> 0, path_len |-> 0, size |-> U64Of(0),
     is_directory |-> 0, hash_present |-> 0, hash_value |-> 0,
     path_data |-> [prefix |-> 0, tail |-> <<>>]]

----------------------------------------------------------------------------
(* RingHeader *)

EventSize == 552

\* size_of::<RingHeader>(): six u32, four u64, four u32 and one u64, repr(C)
HeaderSize == 80

HeaderFields ==
    {"magic", "version", "write_pos", "read_pos", "capacity", "event_size",
     "total_events", "dropped_events", "last_write_timestamp", "last_read_timestamp",
     "producer_pid", "consumer_pid", "shutdown_flag", "max_utilization", "avg_latency_ns"}

\* RingHeader::new
RingHeaderNew(capacity, event_size) ==
    [magic |-> MAGIC_NUMBER, version |-> VERSION, write_pos |-> 0, read_pos |-> 0,
     capacity |-> capacity, event_size |-> event_size, total_events |-> 0,
     dropped_events |-> 0, last_write_timestamp |-> 0, last_read_timestamp |-> 0,
     producer_pid |-> 0, consumer_pid |-> 0, shutdown_flag |-> 0,
     max_utilization |-> 0, avg_latency_ns |-> 0]

\* RingHeader::is_valid
IsValidMagicOnly(h) == h.magic = MAGIC_NUMBER

IsValid(h) == h.magic = MAGIC_NUMBER /\ h.version = VERSION

\* (pos + 1) % header.capacity
NextPosNoWrap(pos, capacity) == pos + 1

NextPos(pos, capacity) == (pos + 1) % capacity

\* push: `if next_write == read_pos` (ring buffer full)
RingFullNever(next_write, read_pos) == FALSE

RingFull(next_write, read_pos) == next_write = read_pos

\* pop / wait_for_events: `if read_pos == write_pos` (ring buffer empty)
RingEmptyNever(read_pos, write_pos) == FALSE

RingEmpty(read_pos, write_pos) == read_pos = write_pos

\* push: ((next_write.wrapping_sub(read_pos)) * 100) / header.capacity, in u32.
\* When next_write < read_pos the difference wraps to 2^32 - d and the product to
\* 2^32 - 100 d; that value is computed here as 2 * (2^31 - 50 d).
Utilization(next_write, read_pos, capacity) ==
    IF next_write >= read_pos
    THEN ((next_write - read_pos) * 100) \div capacity
    ELSE LET d == read_pos - next_write
             half == (2147483647 - 50 * d) + 1
         IN 2 * (half \div capacity) + ((2 * (half % capacity)) \div capacity)

\* fetch_add(1, Relaxed) on total_events / dropped_events
FetchAddNone(n) == n

FetchAdd(n) == n + 1

\* pop: now.saturating_sub(serialized.timestamp)
SaturatingSub(a, b) == IF a >= b THEN a - b ELSE 0

\* pop: if current_avg == 0 { latency } else { (current_avg + latency) / 2 }
NewAvg(current_avg, latency) ==
    IF current_avg = 0 THEN latency ELSE (current_avg + latency) \div 2

\* stats(): the `used` computation
StatsUsed(h) ==
    IF h.write_pos >= h.read_pos
    THEN h.write_pos - h.read_pos
    ELSE h.capacity - h.read_pos + h.write_pos

----------------------------------------------------------------------------
(* Instances.  A call runs from pc "idle" through its shared accesses to   *)
(* pc "return", where `result` is the value handed to the caller; Return   *)
(* takes the instance back to "idle".                                      *)

NullEvent == Deserialize(ZeroSlot)

NoResult == [op |-> "none", ok |-> FALSE]

Result(op, ok) == [op |-> op, ok |-> ok]

InstNew(life, is_producer, fd) ==
    [life |-> life, is_producer |-> is_producer, fd |-> fd, pc |-> "idle",
     w |-> 0, r |-> 0, ev |-> NullEvent, ser |-> ZeroSlot, torn |-> FALSE,
     result |-> NoResult]

\* The event of the n-th push call: a file event stamped n, with a hash on odd n.
NextEvent(n) ==
    EnhancedFileEvent([prefix |-> 3, tail |-> <<>>],
                      IF n % 2 = 1 THEN "Modified" ELSE "Deleted",
                      n, U64Of(100), FALSE,
                      IF n % 2 = 1 THEN SomeHash(n, <<0, 100>>, FALSE) ELSE NoHash,
                      n)

\* SystemTime::now(): a clock that has advanced past every call begun so far.
Now == counts.attempts + Len(popped) + 1

\* The `event` argument of push: the event the daemon's task has just enriched, or
\* the driver's next event.
PushArg ==
    IF pl.pc = "push"
    THEN [pl.cur EXCEPT !.system_event.path = [prefix |-> Len(@), tail |-> <<>>]]
    ELSE NextEvent(counts.attempts + 1)

\* push: `if !self.is_producer { return false }`
PushRefusedNever(i) == FALSE

PushRefused(i) == ~inst[i].is_producer

\* pop: `if self.is_producer { return None }`
PopRefusedNever(i) == FALSE

PopRefused(i) == inst[i].is_producer

Stored(i, fields) == [f \in HeaderFields |-> IF f \in fields THEN writers[f] \cup {i} ELSE writers[f]]

Idle(i) == inst[i].life = "live" /\ inst[i].pc = "idle"

At(i, pc) == inst[i].life = "live" /\ inst[i].pc = pc

\* The locals of a call that returns `result`.
Returning(i, result) ==
    [inst[i] EXCEPT !.pc = "return", !.result = result, !.w = 0, !.r = 0, !.ev = NullEvent]

RtIdle == [phase |-> "off", ev |-> NullEvent, ser |-> ZeroSlot, out |-> NullEvent]

\* The event-processing task when it is not part of the run.
PlOff ==
    [pc |-> "off", has_ring |-> FALSE, chan |-> <<>>, missed |-> 0, closed |-> FALSE,
     sent |-> 0, batch |-> <<>>, k |-> 0, cur |-> NullEvent, cause |-> "none",
     shutdown_sent |-> FALSE, exit |-> "none",
     patterns |-> [include |-> {}, exclude |-> {}],
     metrics |-> [events_processed |-> 0, errors_count |-> 0, total_processing_time_ns |-> 0],
     accepted |-> <<>>, processed |-> <<>>, offered |-> <<>>]

\* The watcher's filter when it is not part of the run.
FltOff ==
    [on |-> FALSE,
     filter |-> [include_patterns |-> {}, exclude_patterns |-> {}, debounce_ms |-> 0,
                 min_file_size |-> 0, max_file_size |-> {}],
     last_events |-> <<>>, now |-> 0, log |-> <<>>, calls |-> <<>>]

\* The FileEventProcessor when it is not part of the run.
CacheOff ==
    [on |-> FALSE,
     config |-> [max_entries |-> 0, ttl_seconds |-> 0, enable_hierarchy |-> FALSE],
     hash_cache |-> <<>>, directory_cache |-> <<>>, now |-> 0, ops |-> 0,
     last |-> [kind |-> "none", hash |-> 0, removed |-> 0, system_event |-> <<>>],
     calls |-> <<>>]

\* The ring right after create_producer, for a driver that makes `limit` push calls.
RingInit(capacities, limit) ==
    /\ \E capacity \in capacities, notify \in BOOLEAN :
          /\ config = [ring_capacity |-> capacity, enable_notifications |-> notify,
                       memory_size |-> HeaderSize + capacity * EventSize]
          /\ header = [RingHeaderNew(capacity, EventSize) EXCEPT !.producer_pid = Pid("prod")]
          /\ inst = [i \in Instances |->
                        IF i = "prod" THEN InstNew("live", TRUE, notify)
                        ELSE InstNew("none", FALSE, FALSE)]
    /\ slots = [k \in 0..(MaxCapacity - 1) |-> ZeroSlot]
    /\ writing = {}
    /\ efd = [i \in Instances |-> 0]
    /\ pushed = <<>>
    /\ popped = <<>>
    /\ counts = [attempts |-> 0, ok |-> 0, full |-> 0, limit |-> limit]
    /\ writers = [f \in HeaderFields |-> {}]

Init ==
    /\ RingInit(1..MaxCapacity, MaxPushes)
    /\ rt = RtIdle
    /\ pl = PlOff
    /\ flt = FltOff
    /\ cache = CacheOff
    /\ eng = <<>>

\* The call returns to its caller.
ReturnCore(i) ==
    /\ At(i, "return")
    /\ inst' = [inst EXCEPT ![i].pc = "idle", ![i].result = NoResult,
                            ![i].ser = ZeroSlot, ![i].torn = FALSE]
    /\ counts' = IF i = "prod" /\ inst[i].result.op = "push"
                 THEN IF inst[i].result.ok THEN [counts EXCEPT !.ok = @ + 1]
                      ELSE [counts EXCEPT !.full = @ + 1]
                 ELSE counts
    /\ UNCHANGED <<header, slots, writing, efd, config, pushed, popped, writers, rt, flt, cache, eng>>

Return(i) == ReturnCore(i) /\ UNCHANGED pl

----------------------------------------------------------------------------
(* create_consumer, shutdown, Drop *)

\* create_consumer on a path whose file is gone (the producer's Drop removed it):
\* every open fails and the call returns Err after its retries.
CreateConsumerNoFile ==
    /\ inst["cons"].life = "none"
    /\ inst["prod"].life = "dropped"
    /\ inst' = [inst EXCEPT !["cons"].life = "failed"]
    /\ UNCHANGED <<header, slots, writing, efd, config, pushed, popped, counts, writers, rt, pl, flt, cache, eng>>

\* create_consumer on the producer's file: validate the header, store consumer_pid.
CreateConsumer ==
    /\ inst["cons"].life = "none"
    /\ inst["prod"].life = "live"
    /\ IF IsValid(header)
       THEN /\ header' = [header EXCEPT !.consumer_pid = Pid("cons")]
            /\ writers' = Stored("cons", {"consumer_pid"})
            /\ inst' = [inst EXCEPT !["cons"] = InstNew("live", FALSE, config.enable_notifications)]
       ELSE /\ inst' = [inst EXCEPT !["cons"].life = "failed"]
            /\ UNCHANGED <<header, writers>>
    /\ UNCHANGED <<slots, writing, efd, config, pushed, popped, counts, rt, pl, flt, cache, eng>>

\* shutdown(): store the flag, then signal the instance's own eventfd.
Shutdown(i) ==
    /\ Idle(i)
    /\ i \notin writers["shutdown_flag"]
    /\ header' = [header EXCEPT !.shutdown_flag = 1]
    /\ writers' = Stored(i, {"shutdown_flag"})
    /\ efd' = [efd EXCEPT ![i] = IF inst[i].fd THEN @ + 1 ELSE @]
    /\ UNCHANGED <<slots, writing, inst, config, pushed, popped, counts, rt, pl, flt, cache, eng>>

\* Drop: shutdown(), close the eventfd, and the producer removes the file.
Drop(i) ==
    /\ Idle(i)
    /\ header' = [header EXCEPT !.shutdown_flag = 1]
    /\ writers' = Stored(i, {"shutdown_flag"})
    /\ efd' = [efd EXCEPT ![i] = 0]
    /\ inst' = [inst EXCEPT ![i].life = "dropped", ![i].fd = FALSE]
    /\ UNCHANGED <<slots, writing, config, pushed, popped, counts, rt, pl, flt, cache, eng>>

----------------------------------------------------------------------------
(* push *)

\* push: the role check, then load write_pos (Acquire).
PushCall(i) ==
    /\ Idle(i)
    /\ IF PushRefused(i)
       THEN /\ inst' = [inst EXCEPT ![i] = Returning(i, Result("push", FALSE))]
            /\ UNCHANGED counts
       ELSE /\ counts.attempts < counts.limit
            /\ counts' = [counts EXCEPT !.attempts = @ + 1]
            /\ inst' = [inst EXCEPT ![i].pc = "push_load_r", ![i].w = header.write_pos,
                                    ![i].ev = PushArg]
    /\ UNCHANGED <<header, slots, writing, efd, config, pushed, popped, writers, rt, pl, flt, cache, eng>>

\* load read_pos (Acquire), compute next_write, test for full.  The `%` panics
\* when header.capacity is 0.
PushLoadR(i) ==
    /\ At(i, "push_load_r")
    /\ inst' = IF header.capacity = 0
               THEN [inst EXCEPT ![i].life = "panicked"]
               ELSE [inst EXCEPT ![i].r = header.read_pos,
                                 ![i].pc = IF RingFull(NextPos(inst[i].w, header.capacity), header.read_pos)
                                           THEN "push_drop" ELSE "push_write"]
    /\ UNCHANGED <<header, slots, writing, efd, config, pushed, popped, counts, writers, rt, pl, flt, cache, eng>>

\* full: dropped_events.fetch_add(1); return false.
PushDrop(i) ==
    /\ At(i, "push_drop")
    /\ header' = [header EXCEPT !.dropped_events = FetchAdd(@)]
    /\ writers' = Stored(i, {"dropped_events"})
    /\ inst' = [inst EXCEPT ![i] = Returning(i, Result("push", FALSE))]
    /\ UNCHANGED <<slots, writing, efd, config, pushed, popped, counts, rt, pl, flt, cache, eng>>

\* ptr::write(event_ptr, serialized): the first bytes of slot write_pos change.
\* A slot that ends beyond memory_size lies outside the file: the write is
\* undefined, it may fault or land in the mapping's last page.
PushWriteBegin(i) ==
    /\ At(i, "push_write")
    /\ \E outcome \in IF HeaderSize + (inst[i].w + 1) * header.event_size <= config.memory_size
                      THEN {"written"} ELSE {"written", "fault"} :
          IF outcome = "fault"
          THEN /\ inst' = [inst EXCEPT ![i].life = "faulted"]
               /\ UNCHANGED writing
          ELSE /\ writing' = writing \cup {inst[i].w}
               /\ inst' = [inst EXCEPT ![i].pc = "push_write_end"]
    /\ UNCHANGED <<header, slots, efd, config, pushed, popped, counts, writers, rt, pl, flt, cache, eng>>

\* ptr::write done: the slot holds the serialized event.
PushWriteEnd(i) ==
    /\ At(i, "push_write_end")
    /\ slots' = [slots EXCEPT ![inst[i].w] = Serialize(inst[i].ev)]
    /\ writing' = writing \ {inst[i].w}
    /\ inst' = [inst EXCEPT ![i].pc = "push_stats"]
    /\ UNCHANGED <<header, efd, config, pushed, popped, counts, writers, rt, pl, flt, cache, eng>>

\* last_write_timestamp, total_events and max_utilization (all Relaxed).
PushStats(i) ==
    /\ At(i, "push_stats")
    /\ LET utilization == Utilization(NextPos(inst[i].w, header.capacity), inst[i].r, header.capacity)
           raise == utilization > header.max_utilization
       IN /\ header' = [header EXCEPT !.last_write_timestamp = Now,
                                      !.total_events = FetchAdd(@),
                                      !.max_utilization = IF raise THEN utilization ELSE @]
          /\ writers' = Stored(i, {"last_write_timestamp", "total_events"}
                                  \cup (IF raise THEN {"max_utilization"} ELSE {}))
    /\ inst' = [inst EXCEPT ![i].pc = "push_commit"]
    /\ UNCHANGED <<slots, writing, efd, config, pushed, popped, counts, rt, pl, flt, cache, eng>>

\* write_pos.store(next_write, Release); without an eventfd, return true.
PushCommit(i) ==
    /\ At(i, "push_commit")
    /\ header' = [header EXCEPT !.write_pos = NextPos(inst[i].w, header.capacity)]
    /\ writers' = Stored(i, {"write_pos"})
    /\ pushed' = Append(pushed, inst[i].ev)
    /\ inst' = IF inst[i].fd
               THEN [inst EXCEPT ![i].pc = "push_notify"]
               ELSE [inst EXCEPT ![i] = Returning(i, Result("push", TRUE))]
    /\ UNCHANGED <<slots, writing, efd, config, popped, counts, rt, pl, flt, cache, eng>>

\* notify_consumer(fd): add 1 to the instance's own eventfd; return true.
PushNotify(i) ==
    /\ At(i, "push_notify")
    /\ efd' = [efd EXCEPT ![i] = @ + 1]
    /\ inst' = [inst EXCEPT ![i] = Returning(i, Result("push", TRUE))]
    /\ UNCHANGED <<header, slots, writing, config, pushed, popped, counts, writers, rt, pl, flt, cache, eng>>

----------------------------------------------------------------------------
(* pop *)

\* pop: the role check, then load read_pos (Acquire).
PopCall(i) ==
    /\ Idle(i)
    /\ inst' = IF PopRefused(i)
               THEN [inst EXCEPT ![i] = Returning(i, Result("pop", FALSE))]
               ELSE [inst EXCEPT ![i].pc = "pop_load_w", ![i].r = header.read_pos]
    /\ UNCHANGED <<header, slots, writing, efd, config, pushed, popped, counts, writers, rt, pl, flt, cache, eng>>

\* load write_pos (Acquire); empty: return None.
PopLoadW(i) ==
    /\ At(i, "pop_load_w")
    /\ inst' = IF RingEmpty(inst[i].r, header.write_pos)
               THEN [inst EXCEPT ![i] = Returning(i, Result("pop", FALSE))]
               ELSE [inst EXCEPT ![i].pc = "pop_read", ![i].w = header.write_pos]
    /\ UNCHANGED <<header, slots, writing, efd, config, pushed, popped, counts, writers, rt, pl, flt, cache, eng>>

\* ptr::read(event_ptr): the first bytes of slot read_pos are copied.
PopReadBegin(i) ==
    /\ At(i, "pop_read")
    /\ inst' = [inst EXCEPT ![i].pc = "pop_read_end", ![i].ser = slots[inst[i].r],
                            ![i].torn = inst[i].r \in writing]
    /\ UNCHANGED <<header, slots, writing, efd, config, pushed, popped, counts, writers, rt, pl, flt, cache, eng>>

\* ptr::read done: the copy is torn when the slot changed meanwhile.
PopReadEnd(i) ==
    /\ At(i, "pop_read_end")
    /\ inst' = [inst EXCEPT ![i].pc = "pop_stats", ![i].ser = slots[inst[i].r],
                            ![i].torn = \/ inst[i].torn
                                        \/ inst[i].r \in writing
                                        \/ slots[inst[i].r] # inst[i].ser]
    /\ UNCHANGED <<header, slots, writing, efd, config, pushed, popped, counts, writers, rt, pl, flt, cache, eng>>

\* last_read_timestamp and avg_latency_ns (Relaxed).
PopStats(i) ==
    /\ At(i, "pop_stats")
    /\ header' = [header EXCEPT !.last_read_timestamp = Now,
                                !.avg_latency_ns = NewAvg(@, SaturatingSub(Now, inst[i].ser.timestamp))]
    /\ writers' = Stored(i, {"last_read_timestamp", "avg_latency_ns"})
    /\ inst' = [inst EXCEPT ![i].pc = "pop_commit"]
    /\ UNCHANGED <<slots, writing, efd, config, pushed, popped, counts, rt, pl, flt, cache, eng>>

\* read_pos.store(next_read, Release); return Some(event).
PopCommit(i) ==
    /\ At(i, "pop_commit")
    /\ header' = [header EXCEPT !.read_pos = NextPos(inst[i].r, header.capacity)]
    /\ writers' = Stored(i, {"read_pos"})
    /\ popped' = Append(popped, [event |-> Deserialize(inst[i].ser), torn |-> inst[i].torn])
    /\ inst' = [inst EXCEPT ![i].pc = "return", ![i].result = Result("pop", TRUE),
                            ![i].w = 0, ![i].r = 0]
    /\ UNCHANGED <<slots, writing, efd, config, pushed, counts, rt, pl, flt, cache, eng>>

----------------------------------------------------------------------------
(* wait_for_events *)

\* producer: false.  Events already available: true.  Otherwise wait on the
\* instance's eventfd, or poll the positions.
WaitCall(i) ==
    /\ Idle(i)
    /\ inst' = IF inst[i].is_producer
               THEN [inst EXCEPT ![i] = Returning(i, Result("wait_for_events", FALSE))]
               ELSE IF ~RingEmpty(header.read_pos, header.write_pos)
               THEN [inst EXCEPT ![i] = Returning(i, Result("wait_for_events", TRUE))]
               ELSE [inst EXCEPT ![i].pc = IF inst[i].fd THEN "wait_fd" ELSE "wait_poll",
                                 ![i].r = header.read_pos, ![i].w = header.write_pos]
    /\ UNCHANGED <<header, slots, writing, efd, config, pushed, popped, counts, writers, rt, pl, flt, cache, eng>>

\* wait_on_eventfd: poll() returns when the counter is non-zero (read resets it),
\* or when the timeout expires.
WaitOnEventfd(i) ==
    /\ At(i, "wait_fd")
    /\ inst' = [inst EXCEPT ![i] = Returning(i, Result("wait_for_events", efd[i] > 0))]
    /\ efd' = [efd EXCEPT ![i] = 0]
    /\ UNCHANGED <<header, slots, writing, config, pushed, popped, counts, writers, rt, pl, flt, cache, eng>>

\* fallback polling: a round that sees read_pos != write_pos returns true.
WaitPollSeen(i) ==
    /\ At(i, "wait_poll")
    /\ ~RingEmpty(header.read_pos, header.write_pos)
    /\ inst' = [inst EXCEPT ![i] = Returning(i, Result("wait_for_events", TRUE))]
    /\ UNCHANGED <<header, slots, writing, efd, config, pushed, popped, counts, writers, rt, pl, flt, cache, eng>>

\* fallback polling: the timeout has elapsed.
WaitPollTimeout(i) ==
    /\ At(i, "wait_poll")
    /\ inst' = [inst EXCEPT ![i] = Returning(i, Result("wait_for_events", FALSE))]
    /\ UNCHANGED <<header, slots, writing, efd, config, pushed, popped, counts, writers, rt, pl, flt, cache, eng>>

----------------------------------------------------------------------------

Step(i) ==
    \/ Return(i)
    \/ Shutdown(i)
    \/ Drop(i)
    \/ PushCall(i)
    \/ PushLoadR(i)
    \/ PushDrop(i)
    \/ PushWriteBegin(i)
    \/ PushWriteEnd(i)
    \/ PushStats(i)
    \/ PushCommit(i)
    \/ PushNotify(i)
    \/ PopCall(i)
    \/ PopLoadW(i)
    \/ PopReadBegin(i)
    \/ PopReadEnd(i)
    \/ PopStats(i)
    \/ PopCommit(i)
    \/ WaitCall(i)
    \/ WaitOnEventfd(i)
    \/ WaitPollSeen(i)
    \/ WaitPollTimeout(i)

Next ==
    \/ CreateConsumer
    \/ CreateConsumerNoFile
    \/ \E i \in Instances : Step(i)

Spec == Init /\ [][Next]_vars

----------------------------------------------------------------------------
(* The producer alone: push calls on a ring nobody pops from. *)

FillInit ==
    /\ RingInit(1..MaxFillCapacity, MaxFillPushes)
    /\ rt = RtIdle
    /\ pl = PlOff
    /\ flt = FltOff
    /\ cache = CacheOff
    /\ eng = <<>>

FillNext ==
    \/ PushCall("prod")
    \/ PushLoadR("prod")
    \/ PushDrop("prod")
    \/ PushWriteBegin("prod")
    \/ PushWriteEnd("prod")
    \/ PushStats("prod")
    \/ PushCommit("prod")
    \/ PushNotify("prod")
    \/ Return("prod")

SpecFill == FillInit /\ [][FillNext]_vars

----------------------------------------------------------------------------
(* create_producer on any configuration, and the producer's pushes.        *)

\* create_producer: set_len(memory_size), map the file (a mapping of length 0
\* is refused), write the header.  Nothing compares ring_capacity with
\* memory_size or with 0.
CreateInit ==
    /\ \E capacity \in 0..2, notify \in BOOLEAN,
          memory_size \in {0, HeaderSize, HeaderSize + EventSize, HeaderSize + 2 * EventSize} :
          /\ config = [ring_capacity |-> capacity, enable_notifications |-> notify,
                       memory_size |-> memory_size]
          /\ header = [RingHeaderNew(capacity, EventSize) EXCEPT !.producer_pid = Pid("prod")]
          /\ inst = [i \in Instances |->
                        IF i = "prod"
                        THEN IF memory_size = 0 THEN InstNew("failed", TRUE, FALSE)
                             ELSE InstNew("live", TRUE, notify)
                        ELSE InstNew("none", FALSE, FALSE)]
    /\ slots = [k \in 0..(MaxCapacity - 1) |-> ZeroSlot]
    /\ writing = {}
    /\ efd = [i \in Instances |-> 0]
    /\ pushed = <<>>
    /\ popped = <<>>
    /\ counts = [attempts |-> 0, ok |-> 0, full |-> 0, limit |-> MaxPushes]
    /\ writers = [f \in HeaderFields |-> {}]
    /\ rt = RtIdle
    /\ pl = PlOff
    /\ flt = FltOff
    /\ cache = CacheOff
    /\ eng = <<>>

SpecCreate == CreateInit /\ [][FillNext]_vars

----------------------------------------------------------------------------
(* The serialisation round trip on its own: an event is written into a     *)
(* slot image and read back.                                               *)

PathPrefixes == {0, 3, MaxPathBytes - 2, MaxPathBytes - 1, MaxPathBytes, MaxPathBytes + 1}

\* Paths come from &str (poll_events: CStr::to_str), so they are valid UTF-8.
InputPaths ==
    {[prefix |-> n, tail |-> t] : n \in PathPrefixes,
                                  t \in {u \in UNION {[1..k -> ByteClasses] : k \in 0..MaxTail} : ValidTail(u) /\ (u = <<>> \/ u[1] # "a")}}

\* 0, 100, 2^32 - 1, 2^32, 2^32 + 100
InputSizes ==
    {U64Of(0), U64Of(100), <<0, 0, U16Max, U16Max>>, <<0, 1, 0, 0>>, <<0, 1, 0, 100>>}

InputHashes ==
    {NoHash} \cup {SomeHash(h, sz, inc) : h \in {0, 9},
                                          sz \in {<<0, 0>>, <<0, 100>>, <<U16Max, U16Max>>},
                                          inc \in BOOLEAN}

InputEvents ==
    {EnhancedFileEvent(path, kind, 7, size, isdir, hash, ptime) :
        path \in InputPaths, kind \in EventTypes, size \in InputSizes,
        isdir \in BOOLEAN, hash \in InputHashes, ptime \in {0, 5}}

RtInit ==
    /\ RingInit({1}, 0)
    /\ pl = PlOff
    /\ flt = FltOff
    /\ cache = CacheOff
    /\ eng = <<>>
    /\ \E event \in InputEvents : rt = [phase |-> "event", ev |-> event, ser |-> ZeroSlot, out |-> NullEvent]

\* SerializedFileEvent::from(&event)
RtSerialize ==
    /\ rt.phase = "event"
    /\ rt' = [rt EXCEPT !.phase = "slot", !.ser = Serialize(rt.ev)]
    /\ UNCHANGED <<header, slots, writing, inst, efd, config, pushed, popped, counts, writers, pl, flt, cache, eng>>

\* EnhancedFileEvent::from(&serialized)
RtDeserialize ==
    /\ rt.phase = "slot"
    /\ rt' = [rt EXCEPT !.phase = "read", !.out = Deserialize(rt.ser)]
    /\ UNCHANGED <<header, slots, writing, inst, efd, config, pushed, popped, counts, writers, pl, flt, cache, eng>>

RtNext == RtSerialize \/ RtDeserialize

SpecRt == RtInit /\ [][RtNext]_vars

----------------------------------------------------------------------------
(* create_consumer on whatever file lies at the shared path: the file the  *)
(* producer has just created, or one whose header carries another magic or *)
(* version and the pid of an earlier consumer.                             *)

AttachInit ==
    /\ \E capacity \in 1..MaxCapacity, notify \in BOOLEAN,
          magic \in {MAGIC_NUMBER, 0, MAGIC_NUMBER + 1},
          version \in {VERSION, 0, VERSION + 1},
          earlier \in {0, 303} :
          /\ config = [ring_capacity |-> capacity, enable_notifications |-> notify,
                       memory_size |-> HeaderSize + capacity * EventSize]
          /\ header = [RingHeaderNew(capacity, EventSize) EXCEPT
                           !.magic = magic, !.version = version,
                           !.producer_pid = Pid("prod"), !.consumer_pid = earlier]
          /\ inst = [i \in Instances |->
                        IF i = "prod" THEN InstNew("live", TRUE, notify)
                        ELSE InstNew("none", FALSE, FALSE)]
    /\ slots = [k \in 0..(MaxCapacity - 1) |-> ZeroSlot]
    /\ writing = {}
    /\ efd = [i \in Instances |-> 0]
    /\ pushed = <<>>
    /\ popped = <<>>
    /\ counts = [attempts |-> 0, ok |-> 0, full |-> 0, limit |-> 0]
    /\ writers = [f \in HeaderFields |-> {}]
    /\ rt = RtIdle
    /\ pl = PlOff
    /\ flt = FltOff
    /\ cache = CacheOff
    /\ eng = <<>>

AttachNext ==
    \/ CreateConsumer
    \/ CreateConsumerNoFile
    \/ Drop("prod")

SpecAttach == AttachInit /\ [][AttachNext]_vars

----------------------------------------------------------------------------
(* Glob patterns.  A path string is a sequence of characters; a pattern is *)
(* a sequence of tokens: "**", "*", "?" or a character.                    *)

\* glob_match: the pattern becomes the regex ^...$ with "**" -> ".*",
\* "*" -> "[^/]*", "?" -> "[^/]", and "." left as the regex dot.  (Patterns
\* here hold no other regex metacharacter, so Regex::new succeeds.)
RECURSIVE GlobMatch(_, _)
GlobMatch(pattern, path) ==
    IF pattern = <<>> THEN path = <<>>
    ELSE LET tok == Head(pattern)
             rest == Tail(pattern)
             From(k) == SubSeq(path, k + 1, Len(path))
         IN CASE tok = "**" -> \E k \in 0..Len(path) : GlobMatch(rest, From(k))
              [] tok = "*" -> \E k \in 0..Len(path) :
                                  /\ \A j \in 1..k : path[j] # "/"
                                  /\ GlobMatch(rest, From(k))
              [] tok = "?" -> path # <<>> /\ path[1] # "/" /\ GlobMatch(rest, Tail(path))
              [] tok = "." -> path # <<>> /\ GlobMatch(rest, Tail(path))
              [] OTHER -> path # <<>> /\ path[1] = tok /\ GlobMatch(rest, Tail(path))

\* GlobSet::is_match: some glob of the set matches.  (The patterns and paths used
\* with it are ones on which the globset crate and glob_match agree.)
IsMatch(globs, path) == \E g \in globs : GlobMatch(g, path)

\* CompiledPatterns::should_watch
ShouldWatch(patterns, path) ==
    IF ~IsMatch(patterns.include, path) THEN FALSE
    ELSE ~IsMatch(patterns.exclude, path)

----------------------------------------------------------------------------
(* The daemon's event-processing task: event_processing_loop and           *)
(* process_event_batch, fed by the watcher's broadcast channel and pushing *)
(* into the ring through the producer instance.                            *)

\* CompiledPatterns with an include set: include "**", exclude "**/b".
PlPatterns == [include |-> {<<"**">>}, exclude |-> {<<"**", "/", "b">>}]

PlPaths == {<<"a", "/", "a">>, <<"a", "/", "b">>}

\* The n-th event the watcher sends; its timestamp n identifies it.
SystemEvent(n, path) ==
    [path |-> path, event_type |-> "Modified", timestamp |-> n,
     size |-> U64Of(100), is_directory |-> FALSE]

\* `if batch.len() >= batch_size`
BatchFullLate(n) == n > BatchSize

BatchFull(n) == n >= BatchSize

\* `for event in events`: the k-th event of the flush
BatchEventReversed(batch, k) == batch[Len(batch) + 1 - k]

BatchEvent(batch, k) == batch[k]

\* `for event in events`: whatever happened to the k-th event, the (k+1)-th is next.
AfterEventStop(batch, k, ok) == IF ok THEN k + 1 ELSE Len(batch) + 1

AfterEvent(batch, k, ok) == k + 1

\* The task after the k-th event of the flush; after the last one, batch.clear().
FlushStep(p, ok) ==
    LET k == AfterEvent(p.batch, p.k, ok)
    IN IF k > Len(p.batch)
       THEN [p EXCEPT !.pc = "select", !.batch = <<>>, !.k = 0, !.cause = "none", !.cur = NullEvent]
       ELSE [p EXCEPT !.pc = "enrich", !.k = k, !.cur = NullEvent]

\* MetricsCollector::record_event: one more event, and its processing time.
RecordEventTimeOnly(m, event) ==
    [m EXCEPT !.total_processing_time_ns = @ + event.processing_time_ns]

RecordEvent(m, event) ==
    [m EXCEPT !.events_processed = @ + 1,
              !.total_processing_time_ns = @ + event.processing_time_ns]

\* MetricsCollector::average_processing_time_ns
AverageProcessingTimeNs(m) ==
    IF m.events_processed > 0
    THEN m.total_processing_time_ns \div m.events_processed
    ELSE 0

PlRunning == pl.pc \notin {"off", "exited"}

PlInit ==
    /\ RingInit({1, 2}, MaxEvents)
    /\ rt = RtIdle
    /\ flt = FltOff
    /\ cache = CacheOff
    /\ eng = <<>>
    /\ \E ring \in BOOLEAN, include \in {PlPatterns.include, {}} :
          pl = [PlOff EXCEPT !.pc = "select", !.has_ring = ring,
                             !.patterns = [PlPatterns EXCEPT !.include = include]]

\* The watcher sends an event (event_sender.send).  When the channel already holds
\* its capacity of messages the receiver has not taken, the oldest is overwritten
\* and the receiver has missed it.
SourceSend ==
    /\ PlRunning
    /\ ~pl.closed
    /\ pl.sent < MaxEvents
    /\ \E path \in PlPaths :
          LET event == SystemEvent(pl.sent + 1, path)
          IN pl' = IF Len(pl.chan) >= ChannelCapacity
                   THEN [pl EXCEPT !.sent = @ + 1, !.chan = Append(Tail(@), event),
                                   !.missed = @ + 1]
                   ELSE [pl EXCEPT !.sent = @ + 1, !.chan = Append(@, event)]
    /\ UNCHANGED <<header, slots, writing, inst, efd, config, pushed, popped, counts, writers, rt, flt, cache, eng>>

\* The SystemWatcher, and with it the only Sender, is dropped: end of stream.
SourceClose ==
    /\ PlRunning
    /\ ~pl.closed
    /\ pl' = [pl EXCEPT !.closed = TRUE]
    /\ UNCHANGED <<header, slots, writing, inst, efd, config, pushed, popped, counts, writers, rt, flt, cache, eng>>

\* select!: system_events.recv() completes.  Err(Lagged) and Err(Closed) both
\* `break`; Ok(event) is appended when the patterns allow it, and a batch that
\* has reached batch_size is flushed.
PlRecv ==
    /\ pl.pc = "select"
    /\ IF pl.missed > 0
       THEN pl' = [pl EXCEPT !.pc = "exited", !.exit = "lagged", !.batch = <<>>]
       ELSE IF pl.chan # <<>>
       THEN LET event == Head(pl.chan)
                batch == Append(pl.batch, event)
            IN IF ~ShouldWatch(pl.patterns, event.path)
               THEN pl' = [pl EXCEPT !.chan = Tail(@)]
               ELSE IF BatchFull(Len(batch))
               THEN pl' = [pl EXCEPT !.chan = Tail(@), !.batch = batch,
                                     !.accepted = Append(@, event.timestamp),
                                     !.pc = "enrich", !.k = 1, !.cause = "full"]
               ELSE pl' = [pl EXCEPT !.chan = Tail(@), !.batch = batch,
                                     !.accepted = Append(@, event.timestamp)]
       ELSE /\ pl.closed
            /\ pl' = [pl EXCEPT !.pc = "exited", !.exit = "closed", !.batch = <<>>]
    /\ UNCHANGED <<header, slots, writing, inst, efd, config, pushed, popped, counts, writers, rt, flt, cache, eng>>

\* select!: interval.tick() completes; a non-empty batch is flushed.
PlTick ==
    /\ pl.pc = "select"
    /\ pl' = IF pl.batch # <<>>
             THEN [pl EXCEPT !.pc = "enrich", !.k = 1, !.cause = "tick"]
             ELSE pl
    /\ UNCHANGED <<header, slots, writing, inst, efd, config, pushed, popped, counts, writers, rt, flt, cache, eng>>

\* process_event_batch: processor.process_event(event) for the next event of the
\* batch.  process_event returns Ok on every path; the hash is None when the file
\* could not be hashed, so the Err arm (record_error) is never taken.  The time
\* measured for the n-th event is n ns.  Without a ring, record_event and
\* sender.send follow at once.
PlEnrich ==
    /\ pl.pc = "enrich"
    /\ \E hashed \in BOOLEAN :
          LET event == BatchEvent(pl.batch, pl.k)
              enhanced == [system_event |-> event,
                           hash |-> IF hashed THEN SomeHash(event.timestamp, <<0, 100>>, FALSE)
                                    ELSE NoHash,
                           processing_time_ns |-> event.timestamp]
              done == [pl EXCEPT !.processed = Append(@, event.timestamp)]
          IN pl' = IF pl.has_ring
                   THEN [done EXCEPT !.pc = "push", !.cur = enhanced]
                   ELSE FlushStep([done EXCEPT !.metrics = RecordEvent(@, enhanced)], TRUE)
    /\ UNCHANGED <<header, slots, writing, inst, efd, config, pushed, popped, counts, writers, rt, flt, cache, eng>>

\* process_event_batch: ring.push(&enhanced_event) is called ...
PlPushCall ==
    /\ pl.pc = "push"
    /\ PushCall("prod")

\* ... and has returned; record_event, sender.send, and on to the next event.
PlPushReturn ==
    /\ pl.pc = "push"
    /\ ReturnCore("prod")
    /\ LET ok == inst["prod"].result.ok
       IN pl' = FlushStep([pl EXCEPT !.metrics = RecordEvent(@, pl.cur),
                                     !.offered =
                               Append(@, [id |-> pl.cur.system_event.timestamp, ok |-> ok])], ok)

\* Daemon::shutdown: shutdown_sender.send(()).  The task holds no receiver of it.
DaemonShutdown ==
    /\ pl.pc # "off"
    /\ ~pl.shutdown_sent
    /\ pl' = [pl EXCEPT !.shutdown_sent = TRUE]
    /\ UNCHANGED <<header, slots, writing, inst, efd, config, pushed, popped, counts, writers, rt, flt, cache, eng>>

\* run() has returned and the runtime is dropped: the task is dropped where it
\* waits in select!, and its batch with it.
RuntimeStop ==
    /\ pl.shutdown_sent
    /\ pl.pc = "select"
    /\ pl' = [pl EXCEPT !.pc = "exited", !.exit = "cancelled", !.batch = <<>>]
    /\ UNCHANGED <<header, slots, writing, inst, efd, config, pushed, popped, counts, writers, rt, flt, cache, eng>>

\* The Daemon's and the task's Arc<ZeroCopyRing> are both gone: Drop runs.
RingDropped ==
    /\ pl.pc = "exited"
    /\ pl.shutdown_sent
    /\ pl.has_ring
    /\ Drop("prod")

PlNext ==
    \/ SourceSend
    \/ SourceClose
    \/ PlRecv
    \/ PlTick
    \/ PlEnrich
    \/ PlPushCall
    \/ PushLoadR("prod")
    \/ PushDrop("prod")
    \/ PushWriteBegin("prod")
    \/ PushWriteEnd("prod")
    \/ PushStats("prod")
    \/ PushCommit("prod")
    \/ PushNotify("prod")
    \/ PlPushReturn
    \/ DaemonShutdown
    \/ RuntimeStop
    \/ RingDropped

SpecPipeline == PlInit /\ [][PlNext]_vars

----------------------------------------------------------------------------
(* Properties of the ring *)

Capacity == header.capacity

\* (write_pos - read_pos) mod capacity
InRing == (header.write_pos + Capacity - header.read_pos) % Capacity

\* Records published by a write_pos store and not yet released by a read_pos store.
Unread == Len(pushed) - Len(popped)

\* The slot the k-th published record was written to.
SlotOf(k) == (k - 1) % Capacity

ProducerBetweenCalls == inst["prod"].pc = "idle"

PushPcs == {"push_load_r", "push_drop", "push_write", "push_write_end", "push_stats",
            "push_commit", "push_notify"}

PopPcs == {"pop_load_w", "pop_read", "pop_read_end", "pop_stats", "pop_commit"}

\* C1: write_pos and read_pos stay in [0, capacity); (write_pos - read_pos) mod
\* capacity is the number of records pushed successfully and not yet popped, and
\* stats().used reports that number.
C1_PositionsCountUnread ==
    /\ header.write_pos \in 0..(Capacity - 1)
    /\ header.read_pos \in 0..(Capacity - 1)
    /\ InRing = Unread
    /\ StatsUsed(header) = Unread

\* C1 witness: write_pos has wrapped around below read_pos with records unread.
C1_Witness ==
    /\ header.write_pos < header.read_pos
    /\ Unread >= 1
    /\ Len(popped) >= 1
    /\ StatsUsed(header) = Unread

\* C2: between push calls, (push calls made by the producer) - dropped_events -
\* (records in the ring) = (records popped); the ring never holds more than
\* capacity - 1 records.
C2_Conservation ==
    /\ InRing <= Capacity - 1
    /\ ProducerBetweenCalls =>
          counts.attempts - header.dropped_events - InRing = Len(popped)

\* C2 witness: pushes were dropped, records were popped and records are unread.
C2_Witness ==
    /\ ProducerBetweenCalls
    /\ header.dropped_events >= 1
    /\ Len(popped) >= 1
    /\ InRing >= 1
    /\ counts.attempts = counts.limit

\* C3: between push calls total_events is the number of producer push calls that
\* returned true and dropped_events the number that returned false on a full ring;
\* dropped_events changes only by +1, in the step of push that found the ring full.
C3_EventAccounting ==
    /\ [](ProducerBetweenCalls =>
             /\ header.total_events = counts.ok
             /\ header.dropped_events = counts.full)
    /\ [][header.dropped_events' # header.dropped_events =>
             /\ header.dropped_events' = header.dropped_events + 1
             /\ inst["prod"].pc = "push_drop"
             /\ inst'["prod"].pc = "return"
             /\ inst'["prod"].result = Result("push", FALSE)]_vars

\* C3 witness: the producer has returned true and false, and is between calls.
C3_Witness ==
    /\ ProducerBetweenCalls
    /\ counts.ok >= 2
    /\ counts.full >= 2
    /\ header.total_events = counts.ok
    /\ header.dropped_events = counts.full

\* C4 as stated: with capacity - 1 records unread and no pop, the next push still
\* succeeds (the producer does not find the ring full), and capacity 4 with five
\* pushes ends with total_events = 4 and dropped_events = 1.
C4_AsStated ==
    /\ (inst["prod"].pc = "push_drop" /\ popped = <<>>) => InRing # Capacity - 1
    /\ (ProducerBetweenCalls /\ Capacity = 4 /\ counts.attempts = 5) =>
          (header.total_events = 4 /\ header.dropped_events = 1)

\* C4 amended: with no pop, a push succeeds while at most capacity - 2 records are
\* unread and fails (dropped_events + 1) once capacity - 1 are; after n push calls
\* total_events = min(n, capacity - 1) and dropped_events = n - min(n, capacity - 1):
\* capacity 4 and five pushes give total_events = 3 and dropped_events = 2.
C4_FillBoundary ==
    /\ inst["prod"].pc = "push_drop" => InRing = Capacity - 1
    /\ inst["prod"].pc = "push_write" => InRing <= Capacity - 2
    /\ ProducerBetweenCalls =>
          /\ header.total_events = Min(counts.attempts, Capacity - 1)
          /\ header.dropped_events = counts.attempts - Min(counts.attempts, Capacity - 1)
          /\ counts.ok = header.total_events
          /\ counts.full = header.dropped_events

\* C4 witness: capacity 4, five pushes, none popped.
C4_Witness ==
    /\ ProducerBetweenCalls
    /\ Capacity = 4
    /\ counts.attempts = 5
    /\ header.total_events = 3
    /\ header.dropped_events = 2

\* C5: pop returns the records in the order of their successful pushes, each once
\* and whole; a record that is published and not yet popped still lies in its slot.
C5_FifoExactlyOnce ==
    /\ Len(popped) <= Len(pushed)
    /\ \A k \in 1..Len(popped) :
          /\ ~popped[k].torn
          /\ popped[k].event = Deserialize(Serialize(pushed[k]))
          /\ popped[k].event.system_event.timestamp = pushed[k].system_event.timestamp
    /\ \A k \in (Len(popped) + 1)..Len(pushed) :
          /\ slots[SlotOf(k)] = Serialize(pushed[k])
          /\ SlotOf(k) \notin writing

\* C5 witness: more records popped than the ring has slots (the indices wrapped).
C5_Witness ==
    /\ Len(popped) > Capacity
    /\ Unread >= 1
    /\ popped[Len(popped)].event.system_event.timestamp = Len(popped)

Exposed == {(header.read_pos + j) % Capacity : j \in 0..(InRing - 1)}

\* C6: a slot whose bytes are being written is not exposed by write_pos; the
\* consumer reads only the slot at read_pos, when write_pos exposes it and it holds
\* the whole record; so the two sides never touch one slot at the same time.
C6_SlotHandoff ==
    /\ \A k \in writing : k \notin Exposed
    /\ \A i \in Instances :
          (inst[i].pc \in {"pop_read", "pop_read_end", "pop_stats", "pop_commit"}) =>
              /\ inst[i].r = header.read_pos
              /\ inst[i].r \in Exposed
              /\ inst[i].r \notin writing
              /\ slots[inst[i].r] = Serialize(pushed[Len(popped) + 1])
    /\ \A i, j \in Instances :
          (/\ inst[i].pc \in {"push_write", "push_write_end"}
           /\ inst[j].pc \in {"pop_read", "pop_read_end"}) => inst[i].w # inst[j].r

\* C6 witness: the producer is writing a slot while the consumer is reading one.
C6_Witness ==
    /\ inst["prod"].pc = "push_write_end"
    /\ inst["cons"].pc = "pop_read_end"
    /\ inst["prod"].w # inst["cons"].r
    /\ Len(popped) >= 1

HeaderAndSlotsUnchanged == UNCHANGED <<header, slots, writing, efd, writers>>

\* C7: a consumer instance is never inside push and a producer instance never
\* inside pop; push on a consumer returns false and pop on a producer returns None,
\* and the step of such a call changes no header field and no slot.
C7_WrongRoleNoOp ==
    /\ [](\A i \in Instances :
             /\ ~inst[i].is_producer =>
                   /\ inst[i].pc \notin PushPcs
                   /\ inst[i].result.op = "push" => ~inst[i].result.ok
             /\ inst[i].is_producer =>
                   /\ inst[i].pc \notin PopPcs
                   /\ inst[i].result.op = "pop" => ~inst[i].result.ok)
    /\ [][\A i \in Instances :
             (/\ inst[i].pc = "idle"
              /\ inst'[i].pc = "return"
              /\ \/ inst'[i].result.op = "push" /\ ~inst[i].is_producer
                 \/ inst'[i].result.op = "pop" /\ inst[i].is_producer)
             => HeaderAndSlotsUnchanged]_vars

\* C7 witness: push on the consumer has returned false and pop on the producer
\* None, on a ring that holds records.
C7_Witness ==
    /\ inst["cons"].pc = "return"
    /\ inst["cons"].result = Result("push", FALSE)
    /\ inst["prod"].pc = "return"
    /\ inst["prod"].result = Result("pop", FALSE)
    /\ InRing >= 1

WrittenBy(i) == {f \in HeaderFields : i \in writers[f]}

\* C8 as stated: the consumer stores only to read_pos and consumer_pid, and the
\* producer never stores to read_pos.
C8_AsStated ==
    /\ WrittenBy("cons") \subseteq {"read_pos", "consumer_pid"}
    /\ "read_pos" \notin WrittenBy("prod")

ConsumerFields == {"read_pos", "consumer_pid", "last_read_timestamp", "avg_latency_ns", "shutdown_flag"}

ProducerFields == {"write_pos", "total_events", "dropped_events", "last_write_timestamp",
                   "max_utilization", "shutdown_flag"}

\* C8 amended: after the header is initialised, the consumer stores only to
\* read_pos, consumer_pid, last_read_timestamp, avg_latency_ns and (shutdown, Drop)
\* shutdown_flag; the producer stores only to write_pos, total_events,
\* dropped_events, last_write_timestamp, max_utilization and shutdown_flag.
C8_FieldOwnership ==
    /\ WrittenBy("cons") \subseteq ConsumerFields
    /\ WrittenBy("prod") \subseteq ProducerFields

\* C8 witness: the consumer has popped and been dropped, the producer has pushed.
C8_Witness ==
    /\ inst["cons"].life = "dropped"
    /\ WrittenBy("cons") = ConsumerFields
    /\ {"write_pos", "total_events", "dropped_events", "max_utilization"} \subseteq WrittenBy("prod")

----------------------------------------------------------------------------
(* Properties of the round trip *)

RtDone == rt.phase = "read"

InHash == rt.ev.hash

OutHash == rt.out.hash

\* The first min(len, 511) bytes of the input path.
PathHead == TakeBytes(rt.ev.system_event.path, Min(PathLen(rt.ev.system_event.path), MaxPathBytes))

C10_PathTruncation ==
    /\ rt.phase \in {"slot", "read"} => rt.ser.path_len <= MaxPathBytes
    /\ RtDone => rt.out.system_event.path = PathHead

----------------------------------------------------------------------------
(* C11: create_consumer attaches exactly when the header at the path has   *)
(* magic 0x52545247 and version 1.  On any other header the call fails and *)
(* the header, consumer_pid included, stays as it was.  On success the     *)
(* header differs from the one found only in consumer_pid, which is the    *)
(* caller's pid, so the capacity and producer_pid the consumer observes    *)
(* are the ones the producer wrote.                                        *)
C11_AttachValidates ==
    [][(/\ inst["cons"].life = "none"
        /\ inst["prod"].life = "live"
        /\ inst'["cons"].life # "none")
       => IF header.magic = 1381257799 /\ header.version = 1
          THEN /\ inst'["cons"].life = "live"
               /\ header' = [header EXCEPT !.consumer_pid = Pid("cons")]
               /\ header'.capacity = config.ring_capacity
               /\ header'.producer_pid = Pid("prod")
          ELSE /\ inst'["cons"].life = "failed"
               /\ header' = header]_vars

\* An attach refused for the version alone, with the earlier consumer's pid still in place.
C11_Witness ==
    /\ inst["cons"].life = "failed"
    /\ inst["prod"].life = "live"
    /\ header.magic = MAGIC_NUMBER
    /\ header.version # VERSION
    /\ header.consumer_pid = 303

----------------------------------------------------------------------------
(* C12: with notifications enabled, a consumer waiting in wait_for_events  *)
(* on an empty ring returns false only if no push completed while it       *)
(* waited: write_pos is still the value the call loaded, or the push that  *)
(* moved it has not sent its signal yet.                                   *)
C12_AsStated ==
    [][(/\ At("cons", "wait_fd")
        /\ inst'["cons"].pc = "return"
        /\ ~inst'["cons"].result.ok)
       => \/ header.write_pos = inst["cons"].w
          \/ At("prod", "push_notify")]_vars

----------------------------------------------------------------------------
(* The watcher's filter: SystemWatcher::should_process_event with its      *)
(* EventFilter and the last_events map.  An Option is a set with at most   *)
(* one element; times are milliseconds; sizes are small numbers.           *)

\* Paths matching the exclude and the include pattern below: both, the first, the
\* second, neither.
FltPaths == {<<"a", "b">>, <<"a">>, <<"b">>, <<"b", "/", "b">>}

FltEvents ==
    {[path |-> path, size |-> 50] : path \in FltPaths}
        \cup {[path |-> <<"b">>, size |-> size] : size \in {5, 500}}

\* Milliseconds between one call and the next.
FltTimeSteps == {50, 70}

\* EventFilter values: exclude "a**", include "*b", a 100 ms debounce, size bounds.
FltFilters ==
    {[include_patterns |-> inc, exclude_patterns |-> exc, debounce_ms |-> d,
      min_file_size |-> sizes[1], max_file_size |-> sizes[2]] :
        inc \in {{}, {<<"*", "b">>}}, exc \in {{}, {<<"a", "**">>}},
        d \in {0, 100}, sizes \in {<<0, {}>>, <<10, {100}>>}}

\* `current_time - *last_time < self.event_filter.debounce_ms`
DebouncedNever(current_time, last_time, debounce_ms) == FALSE

DebouncedInclusive(current_time, last_time, debounce_ms) == current_time - last_time <= debounce_ms

Debounced(current_time, last_time, debounce_ms) == current_time - last_time < debounce_ms

\* should_process_event up to its return: the rule that returns false, or "accept".
Verdict(filter, last_events, event, current_time) ==
    IF event.size < filter.min_file_size THEN "min_size"
    ELSE IF \E max_size \in filter.max_file_size : event.size > max_size THEN "max_size"
    ELSE IF \E pattern \in filter.exclude_patterns : GlobMatch(pattern, event.path) THEN "exclude"
    ELSE IF /\ filter.include_patterns # {}
            /\ ~\E pattern \in filter.include_patterns : GlobMatch(pattern, event.path)
         THEN "include"
    ELSE IF /\ filter.debounce_ms > 0
            /\ \E last_time \in last_events[event.path] :
                  Debounced(current_time, last_time, filter.debounce_ms)
         THEN "debounce"
    ELSE "accept"

\* `self.last_events.insert(..)` is reached: past every return, inside `if debounce_ms > 0`.
InsertedAlways(verdict, debounce_ms) == debounce_ms > 0

Inserted(verdict, debounce_ms) == verdict = "accept" /\ debounce_ms > 0

FltInit ==
    /\ RingInit({1}, 0)
    /\ rt = RtIdle
    /\ pl = PlOff
    /\ cache = CacheOff
    /\ eng = <<>>
    /\ \E filter \in FltFilters :
          flt = [on |-> TRUE, filter |-> filter, last_events |-> [path \in FltPaths |-> {}],
                 now |-> 0, log |-> <<>>, calls |-> [t \in {1, 2} |-> {}]]

\* should_process_event(event), called dt ms after the previous call.
ShouldProcessEvent(event, dt) ==
    /\ flt.on
    /\ Len(flt.log) < MaxFilterCalls
    /\ LET current_time == flt.now + dt
           verdict == Verdict(flt.filter, flt.last_events, event, current_time)
       IN flt' = [flt EXCEPT
                     !.now = current_time,
                     !.last_events = IF Inserted(verdict, flt.filter.debounce_ms)
                                     THEN [@ EXCEPT ![event.path] = {current_time}]
                                     ELSE @,
                     !.log = Append(@, [event |-> event, at |-> current_time, verdict |-> verdict])]
    /\ UNCHANGED <<header, slots, writing, inst, efd, config, pushed, popped, counts, writers, rt, pl, cache, eng>>

FltNext == \E event \in FltEvents, dt \in FltTimeSteps : ShouldProcessEvent(event, dt)

SpecFilter == FltInit /\ [][FltNext]_vars

----------------------------------------------------------------------------
(* should_process_event called from two threads through &SystemWatcher     *)
(* (poll_events takes &self and SystemWatcher is declared Sync).  The      *)
(* DashMap makes each of last_events.get and last_events.insert atomic,    *)
(* nothing more: the guard of get is released before insert is called.     *)

\* Thread t calls should_process_event(event), dt ms after the previous call, and
\* runs up to its return false, or to just before `self.last_events.insert`.
ShouldProcessEventCheck(t, event, dt) ==
    /\ flt.on
    /\ flt.calls[t] = {}
    /\ Len(flt.log) + Cardinality({u \in DOMAIN flt.calls : flt.calls[u] # {}}) < MaxFilterCalls
    /\ LET current_time == flt.now + dt
           verdict == Verdict(flt.filter, flt.last_events, event, current_time)
           call == [event |-> event, at |-> current_time, verdict |-> verdict]
       IN flt' = IF Inserted(verdict, flt.filter.debounce_ms)
                 THEN [flt EXCEPT !.now = current_time, !.calls[t] = {call}]
                 ELSE [flt EXCEPT !.now = current_time, !.log = Append(@, call)]
    /\ UNCHANGED <<header, slots, writing, inst, efd, config, pushed, popped, counts, writers, rt, pl, cache, eng>>

\* Thread t runs `self.last_events.insert(event.path.clone(), current_time)` and
\* returns true.
ShouldProcessEventInsert(t) ==
    /\ flt.on
    /\ \E call \in flt.calls[t] :
          flt' = [flt EXCEPT !.last_events[call.event.path] = {call.at},
                             !.calls[t] = {},
                             !.log = Append(@, call)]
    /\ UNCHANGED <<header, slots, writing, inst, efd, config, pushed, popped, counts, writers, rt, pl, cache, eng>>

FltConcNext ==
    \E t \in {1, 2} :
        \/ \E path \in {<<"b">>, <<"b", "/", "b">>}, dt \in FltTimeSteps :
               ShouldProcessEventCheck(t, [path |-> path, size |-> 50], dt)
        \/ ShouldProcessEventInsert(t)

SpecFilterConc == FltInit /\ [][FltConcNext]_vars

----------------------------------------------------------------------------
(* FileEventProcessor: the hash cache (hash_cache) and its parent index    *)
(* (directory_cache).  Time is counted in ticks of 1/TicksPerSecond s.     *)
(* An Option is a set with at most one element.  cache.last is what the    *)
(* last call returned (the branch taken, the hash, the event passed on)    *)
(* and how many entries it removed.                                        *)

\* The files of the run: /t/a, /t/s/b, /ta/x, /t/c, /ta/y.
CacheFiles ==
    {<<"/", "t", "/", "a">>, <<"/", "t", "/", "s", "/", "b">>, <<"/", "t", "a", "/", "x">>,
     <<"/", "t", "/", "c">>, <<"/", "t", "a", "/", "y">>}

\* Path::parent of a path with at least two components.
Parent(path) ==
    LET n == CHOOSE i \in 1..Len(path) :
                 path[i] = "/" /\ \A j \in (i + 1)..Len(path) : path[j] # "/"
    IN SubSeq(path, 1, n - 1)

\* The keys directory_cache can get: /t, /t/s, /ta.
CacheDirs == {Parent(path) : path \in CacheFiles}

\* str::starts_with
StartsWith(s, prefix) == Len(prefix) <= Len(s) /\ SubSeq(s, 1, Len(prefix)) = prefix

\* Duration::as_secs: whole seconds, the fraction dropped.
AsSecs(age) == age \div TicksPerSecond

\* The test of process_event on an entry found for the event's path.
Fresh(entry, now, event_time, ttl_seconds) ==
    LET age == IF now >= entry.timestamp THEN now - entry.timestamp ELSE 0
    IN AsSecs(age) <= ttl_seconds /\ entry.timestamp >= event_time

\* entry.access_count += 1 (u32; the run stays far below its range).
HitCountDown(n) == n - 1

HitCount(n) == n + 1

\* The paths that have an entry in hash_cache.
Present(hc) == {path \in DOMAIN hc : hc[path] # {}}

EntryOf(hc, path) == CHOOSE entry \in hc[path] : TRUE

\* (max_entries as f64 * 0.8) as usize
TargetSizeFull(max_entries) == max_entries

TargetSize(max_entries) == (max_entries * 8) \div 10

\* evict_lru's choice.  The sample is what the iteration over the map meets first
\* (any entries, up to twice the number to remove); after the stable sort by
\* access_count the first entries_to_remove of it are removed, so no entry kept
\* from the sample has a smaller count than a removed one.  The result is the set
\* of <<sample, removed>> pairs the call can end with.
EvictChoices(hc, max_entries) ==
    LET len == Cardinality(Present(hc))
        target_size == TargetSize(max_entries)
        entries_to_remove == IF len > target_size THEN len - target_size ELSE 0
    IN IF entries_to_remove = 0
       THEN {<<{}, {}>>}
       ELSE UNION {{<<to_evict, removed>> : removed \in
                      {removed \in SUBSET to_evict :
                          /\ Cardinality(removed) = entries_to_remove
                          /\ \A r \in removed, k \in to_evict \ removed :
                                EntryOf(hc, r).access_count <= EntryOf(hc, k).access_count}} :
                   to_evict \in {sample \in SUBSET Present(hc) :
                                   Cardinality(sample) = Min(len, entries_to_remove * 2)}}

\* files.retain(|p| p != path) on the parent bucket of every removed path; a
\* bucket that gets empty stays in the map.
RetainOthers(dc, removed) ==
    [dir \in DOMAIN dc |->
        {SelectSeq(files, LAMBDA p : ~(p \in removed /\ Parent(p) = dir)) : files \in dc[dir]}]

\* hash_file returned Err: compute_and_cache_hash returns None before it touches
\* the maps.
HashFailedDropsEntry(c, path) == [c EXCEPT !.hash_cache[path] = {}]

HashFailed(c, path) == c

\* compute_and_cache_hash(path), begun with the processor as c; hashed = 0 stands
\* for Err of hash_file, any other value for the hash of the file's bytes.  The
\* result is the set of states the call can end in.
ComputeAndCacheHash(c, path, hashed) ==
    IF hashed = 0
    THEN {[HashFailed(c, path) EXCEPT !.last.kind = "failed"]}
    ELSE LET entry == [hash |-> hashed, timestamp |-> c.now, access_count |-> 1]
             hc == [c.hash_cache EXCEPT ![path] = {entry}]
             dc == IF c.config.enable_hierarchy
                   THEN [c.directory_cache EXCEPT ![Parent(path)] =
                            {Append(IF @ = {} THEN <<>> ELSE CHOOSE files \in @ : TRUE, path)}]
                   ELSE c.directory_cache
         IN IF Cardinality(Present(hc)) > c.config.max_entries
            THEN {[c EXCEPT
                     !.hash_cache = [p \in DOMAIN hc |-> IF p \in choice[2] THEN {} ELSE hc[p]],
                     !.directory_cache = RetainOthers(dc, choice[2]),
                     !.last.kind = "computed", !.last.hash = hashed,
                     !.last.removed = Cardinality(choice[2])] :
                  choice \in EvictChoices(hc, c.config.max_entries)}
            ELSE {[c EXCEPT !.hash_cache = hc, !.directory_cache = dc,
                            !.last.kind = "computed", !.last.hash = hashed]}

\* invalidate_directory(dir), begun with the processor as c.
InvalidateDirectory(c, dir) ==
    IF ~c.config.enable_hierarchy
    THEN c
    ELSE LET listed == IF dir \in DOMAIN c.directory_cache
                       THEN UNION {{files[n] : n \in 1..Len(files)} :
                                      files \in c.directory_cache[dir]}
                       ELSE {}
         IN [c EXCEPT
               !.hash_cache = [p \in DOMAIN @ |-> IF p \in listed THEN {} ELSE @[p]],
               !.directory_cache =
                   [d \in DOMAIN @ |-> IF d = dir \/ StartsWith(d, dir) THEN {} ELSE @[d]]]

\* `!event.is_directory && matches!(event.event_type, Created | Modified)`
EnrichableAnyKind(event) == ~event.is_directory

Enrichable(event) == ~event.is_directory /\ event.event_type \in {"Created", "Modified"}

\* process_event(event): hashed is what hash_file gives if it is called.  The
\* call returns EnhancedFileEvent { system_event: event, hash, .. }, kept in
\* cache.last with the branch taken (kind).
ProcessEvent(event, hashed) ==
    /\ cache.on
    /\ LET c == [cache EXCEPT !.ops = @ + 1,
                              !.last = [kind |-> "none", hash |-> 0, removed |-> 0,
                                        system_event |-> event]]
       IN IF Enrichable(event)
          THEN IF /\ c.hash_cache[event.path] # {}
                  /\ Fresh(EntryOf(c.hash_cache, event.path), c.now,
                           event.timestamp, c.config.ttl_seconds)
               THEN cache' = [c EXCEPT
                       !.hash_cache[event.path] =
                           {[entry EXCEPT !.access_count = HitCount(@)] : entry \in @},
                       !.last.kind = "hit",
                       !.last.hash = EntryOf(c.hash_cache, event.path).hash]
               ELSE cache' \in ComputeAndCacheHash(c, event.path, hashed)
          ELSE IF event.is_directory /\ event.event_type = "Deleted"
               THEN cache' = InvalidateDirectory(c, event.path)
               ELSE cache' = c
    /\ UNCHANGED <<header, slots, writing, inst, efd, config, pushed, popped, counts, writers, rt, pl, flt, eng>>

\* entry.timestamp < cutoff
ExpiredInclusive(entry, cutoff) == entry.timestamp <= cutoff

Expired(entry, cutoff) == entry.timestamp < cutoff

\* cleanup_cache(max_age)
CleanupCache(max_age) ==
    /\ cache.on
    /\ LET cutoff == cache.now - max_age
           removed == {p \in Present(cache.hash_cache) :
                          Expired(EntryOf(cache.hash_cache, p), cutoff)}
           dc == RetainOthers(cache.directory_cache, removed)
       IN cache' = [cache EXCEPT
             !.hash_cache = [p \in DOMAIN @ |-> IF p \in removed THEN {} ELSE @[p]],
             !.directory_cache = [d \in DOMAIN dc |-> {files \in dc[d] : files # <<>>}],
             !.last = [kind |-> "sweep", hash |-> 0, removed |-> Cardinality(removed),
                       system_event |-> <<>>],
             !.ops = @ + 1]
    /\ UNCHANGED <<header, slots, writing, inst, efd, config, pushed, popped, counts, writers, rt, pl, flt, eng>>

\* Time passes between two calls.
CacheTick ==
    /\ cache.on
    /\ cache.now < MaxNow
    /\ cache' = [cache EXCEPT !.now = @ + 1]
    /\ UNCHANGED <<header, slots, writing, inst, efd, config, pushed, popped, counts, writers, rt, pl, flt, eng>>

\* The events of a run over the first three files and their directories, of
\* the given kinds, with a timestamp of the start of the run or of the present.
\* The files change with every tick: read at tick n, a file hashes to n + 1, or
\* cannot be read (0).
CacheEvents(now, file_types, dir_types) ==
    [path : {<<"/", "t", "/", "a">>, <<"/", "t", "/", "s", "/", "b">>, <<"/", "t", "a", "/", "x">>},
     event_type : file_types, is_directory : {FALSE}, timestamp : {0, now}]
    \cup [path : CacheDirs, event_type : dir_types, is_directory : {TRUE}, timestamp : {now}]

\* with_config(config): both maps empty.
CacheNew(c) ==
    [on |-> TRUE, config |-> c,
     hash_cache |-> [path \in CacheFiles |-> {}],
     directory_cache |-> [dir \in CacheDirs |-> {}],
     now |-> 0, ops |-> 0, last |-> [kind |-> "none", hash |-> 0, removed |-> 0, system_event |-> <<>>],
     calls |-> [t \in {1, 2} |-> [pc |-> "idle", path |-> <<>>, todo |-> {}]]]

CacheInit ==
    /\ RingInit({1}, 0)
    /\ rt = RtIdle
    /\ pl = PlOff
    /\ flt = FltOff
    /\ eng = <<>>
    /\ \E max_entries \in {2, 3}, enable_hierarchy \in BOOLEAN :
          cache = CacheNew([max_entries |-> max_entries, ttl_seconds |-> 1,
                            enable_hierarchy |-> enable_hierarchy])

CacheNext ==
    \/ /\ cache.ops < MaxCacheOps
       /\ \E event \in CacheEvents(cache.now, {"Modified"}, {"Deleted"}),
             hashed \in {0, cache.now + 1} :
             ProcessEvent(event, hashed)
    \/ /\ cache.ops < MaxCacheOps
       /\ \E max_age \in {0, TicksPerSecond} : CleanupCache(max_age)
    \/ CacheTick

SpecCache == CacheInit /\ [][CacheNext]_vars

\* Capacity eviction alone: Modified events for all five files, every file
\* readable, a cache of four entries.
EvictInit ==
    /\ RingInit({1}, 0)
    /\ rt = RtIdle
    /\ pl = PlOff
    /\ flt = FltOff
    /\ eng = <<>>
    /\ \E enable_hierarchy \in BOOLEAN :
          cache = CacheNew([max_entries |-> 4, ttl_seconds |-> 1,
                            enable_hierarchy |-> enable_hierarchy])

EvictNext ==
    /\ cache.ops < MaxEvictOps
    /\ \E path \in CacheFiles :
          ProcessEvent([path |-> path, event_type |-> "Modified", is_directory |-> FALSE,
                        timestamp |-> 0], cache.now + 1)

SpecEvict == EvictInit /\ [][EvictNext]_vars

\* process_event alone, for events of every kind on files and directories.
EnrichNext ==
    /\ cache.ops < MaxEnrichOps
    /\ \E event \in CacheEvents(cache.now, EventTypes, EventTypes), hashed \in {0, cache.now + 1} :
          ProcessEvent(event, hashed)

SpecEnrich == CacheInit /\ [][EnrichNext]_vars

----------------------------------------------------------------------------
(* The FileEventProcessor shared by two threads.  Each DashMap operation   *)
(* locks the map for its own duration; a call is a sequence of such        *)
(* operations, and cache.calls[t] is where thread t's call stands (pc),    *)
(* the path or directory it is about, and the paths it has still to visit  *)
(* (todo).  One lock stands for all the shards of a map.                   *)

\* The map whose lock the operation at pc takes.
Lock(pc) ==
    IF pc \in {"get_mut", "insert", "evict_scan", "evict_remove", "retain", "inv_file"}
    THEN "hash_cache"
    ELSE "directory_cache"

\* The locks a call holds while it waits at pc: only cleanup_cache holds one, the
\* lock of hash_cache.retain around the closure that calls directory_cache.get_mut.
HoldsNested(pc) ==
    IF pc = "retain_entry" THEN {"hash_cache"}
    ELSE IF pc = "inv_file" THEN {"directory_cache"} ELSE {}

Holds(pc) == IF pc = "retain_entry" THEN {"hash_cache"} ELSE {}

\* The operation at pc can take its lock: no call holds it.
Free(pc) == \A u \in DOMAIN cache.calls : Lock(pc) \notin Holds(cache.calls[u].pc)

\* process_event(event) for a file that changed: hash_cache.get_mut(path).  A
\* fresh entry is a hit and the call is over; otherwise the file is hashed
\* (it is readable) and the entry is about to be inserted.
PeGetMut(t, path) ==
    /\ cache.on
    /\ cache.calls[t].pc = "idle"
    /\ Free("get_mut")
    /\ cache' = IF /\ cache.hash_cache[path] # {}
                   /\ Fresh(EntryOf(cache.hash_cache, path), cache.now, cache.now,
                            cache.config.ttl_seconds)
                THEN [cache EXCEPT !.ops = @ + 1,
                         !.hash_cache[path] =
                             {[entry EXCEPT !.access_count = HitCount(@)] : entry \in @}]
                ELSE [cache EXCEPT !.ops = @ + 1,
                         !.calls[t] = [pc |-> "insert", path |-> path, todo |-> {}]]
    /\ UNCHANGED <<header, slots, writing, inst, efd, config, pushed, popped, counts, writers, rt, pl, flt, eng>>

\* compute_and_cache_hash: self.hash_cache.insert(path, entry)
PeInsert(t) ==
    /\ cache.calls[t].pc = "insert"
    /\ Free("insert")
    /\ cache' = [cache EXCEPT
          !.hash_cache[cache.calls[t].path] =
              {[hash |-> cache.now + 1, timestamp |-> cache.now, access_count |-> 1]},
          !.calls[t].pc = IF cache.config.enable_hierarchy THEN "push" ELSE "evict_scan"]
    /\ UNCHANGED <<header, slots, writing, inst, efd, config, pushed, popped, counts, writers, rt, pl, flt, eng>>

\* compute_and_cache_hash: directory_cache.entry(parent).or_default().push(path)
PePush(t) ==
    /\ cache.calls[t].pc = "push"
    /\ Free("push")
    /\ cache' = [cache EXCEPT
          !.directory_cache[Parent(cache.calls[t].path)] =
              {Append(IF @ = {} THEN <<>> ELSE CHOOSE files \in @ : TRUE, cache.calls[t].path)},
          !.calls[t].pc = "evict_scan"]
    /\ UNCHANGED <<header, slots, writing, inst, efd, config, pushed, popped, counts, writers, rt, pl, flt, eng>>

\* compute_and_cache_hash: `if self.hash_cache.len() > max_entries`, and evict_lru
\* up to its choice of the entries to remove.
PeEvictScan(t) ==
    /\ cache.calls[t].pc = "evict_scan"
    /\ Free("evict_scan")
    /\ IF Cardinality(Present(cache.hash_cache)) > cache.config.max_entries
       THEN \E choice \in EvictChoices(cache.hash_cache, cache.config.max_entries) :
               cache' = [cache EXCEPT !.calls[t] =
                            IF choice[2] = {}
                            THEN [pc |-> "idle", path |-> <<>>, todo |-> {}]
                            ELSE [pc |-> "evict_remove", path |-> <<>>, todo |-> choice[2]]]
       ELSE cache' = [cache EXCEPT !.calls[t] = [pc |-> "idle", path |-> <<>>, todo |-> {}]]
    /\ UNCHANGED <<header, slots, writing, inst, efd, config, pushed, popped, counts, writers, rt, pl, flt, eng>>

\* evict_lru: self.hash_cache.remove(&path) for the next entry to remove
PeEvictRemove(t) ==
    /\ cache.calls[t].pc = "evict_remove"
    /\ Free("evict_remove")
    /\ \E path \in cache.calls[t].todo :
          cache' = [cache EXCEPT
              !.hash_cache[path] = {},
              !.calls[t] = [pc |-> "evict_retain", path |-> path, todo |-> @.todo \ {path}]]
    /\ UNCHANGED <<header, slots, writing, inst, efd, config, pushed, popped, counts, writers, rt, pl, flt, eng>>

\* evict_lru: directory_cache.get_mut(parent), files.retain(|p| p != &path)
PeEvictRetain(t) ==
    /\ cache.calls[t].pc = "evict_retain"
    /\ Free("evict_retain")
    /\ cache' = [cache EXCEPT
          !.directory_cache = RetainOthers(@, {cache.calls[t].path}),
          !.calls[t] = IF @.todo = {}
                       THEN [pc |-> "idle", path |-> <<>>, todo |-> {}]
                       ELSE [pc |-> "evict_remove", path |-> <<>>, todo |-> @.todo]]
    /\ UNCHANGED <<header, slots, writing, inst, efd, config, pushed, popped, counts, writers, rt, pl, flt, eng>>

\* cleanup_cache(max_age): hash_cache.retain takes the lock of hash_cache and
\* meets the expired entries; it keeps the lock while its closure runs.
CleanupRetain(t, max_age) ==
    /\ cache.on
    /\ cache.calls[t].pc = "idle"
    /\ Free("retain")
    /\ LET removed == {p \in Present(cache.hash_cache) :
                          Expired(EntryOf(cache.hash_cache, p), cache.now - max_age)}
       IN cache' = [cache EXCEPT
             !.ops = @ + 1,
             !.calls[t] = IF removed = {}
                          THEN [pc |-> "tidy", path |-> <<>>, todo |-> {}]
                          ELSE [pc |-> "retain_entry", path |-> <<>>, todo |-> removed]]
    /\ UNCHANGED <<header, slots, writing, inst, efd, config, pushed, popped, counts, writers, rt, pl, flt, eng>>

\* cleanup_cache, in the closure for an expired entry:
\* directory_cache.get_mut(parent), files.retain(|p| p != path), and `false`
\* removes the entry.  After the last entry retain gives its lock back.
CleanupRetainEntry(t) ==
    /\ cache.calls[t].pc = "retain_entry"
    /\ Free("retain_entry")
    /\ \E path \in cache.calls[t].todo :
          cache' = [cache EXCEPT
              !.hash_cache[path] = {},
              !.directory_cache = RetainOthers(@, {path}),
              !.calls[t] = IF @.todo = {path}
                           THEN [pc |-> "tidy", path |-> <<>>, todo |-> {}]
                           ELSE [pc |-> "retain_entry", path |-> <<>>, todo |-> @.todo \ {path}]]
    /\ UNCHANGED <<header, slots, writing, inst, efd, config, pushed, popped, counts, writers, rt, pl, flt, eng>>

\* cleanup_cache: self.directory_cache.retain(|_, files| !files.is_empty())
CleanupTidy(t) ==
    /\ cache.calls[t].pc = "tidy"
    /\ Free("tidy")
    /\ cache' = [cache EXCEPT
          !.directory_cache = [d \in DOMAIN @ |-> {files \in @[d] : files # <<>>}],
          !.calls[t] = [pc |-> "idle", path |-> <<>>, todo |-> {}]]
    /\ UNCHANGED <<header, slots, writing, inst, efd, config, pushed, popped, counts, writers, rt, pl, flt, eng>>

\* process_event for a deleted directory, invalidate_directory(dir):
\* self.directory_cache.remove(dir) takes the bucket out of the map.
InvRemove(t, dir) ==
    /\ cache.on
    /\ cache.calls[t].pc = "idle"
    /\ Free("inv_remove")
    /\ LET files == UNION {{bucket[n] : n \in 1..Len(bucket)} : bucket \in cache.directory_cache[dir]}
       IN cache' = IF ~cache.config.enable_hierarchy
                   THEN [cache EXCEPT !.ops = @ + 1]
                   ELSE [cache EXCEPT
                           !.ops = @ + 1,
                           !.directory_cache[dir] = {},
                           !.calls[t] = IF files = {}
                                        THEN [pc |-> "inv_retain", path |-> dir, todo |-> {}]
                                        ELSE [pc |-> "inv_file", path |-> dir, todo |-> files]]
    /\ UNCHANGED <<header, slots, writing, inst, efd, config, pushed, popped, counts, writers, rt, pl, flt, eng>>

\* invalidate_directory: self.hash_cache.remove(&file) for the next file of the bucket
InvFile(t) ==
    /\ cache.calls[t].pc = "inv_file"
    /\ Free("inv_file")
    /\ \E file \in cache.calls[t].todo :
          cache' = [cache EXCEPT
              !.hash_cache[file] = {},
              !.calls[t] = [pc |-> IF @.todo = {file} THEN "inv_retain" ELSE "inv_file",
                            path |-> @.path, todo |-> @.todo \ {file}]]
    /\ UNCHANGED <<header, slots, writing, inst, efd, config, pushed, popped, counts, writers, rt, pl, flt, eng>>

\* invalidate_directory: directory_cache.retain(|path, _| !path.starts_with(dir))
InvRetain(t) ==
    /\ cache.calls[t].pc = "inv_retain"
    /\ Free("inv_retain")
    /\ cache' = [cache EXCEPT
          !.directory_cache =
              [d \in DOMAIN @ |-> IF StartsWith(d, cache.calls[t].path) THEN {} ELSE @[d]],
          !.calls[t] = [pc |-> "idle", path |-> <<>>, todo |-> {}]]
    /\ UNCHANGED <<header, slots, writing, inst, efd, config, pushed, popped, counts, writers, rt, pl, flt, eng>>

\* Two threads on a processor of one or two entries with the hierarchy enabled.
ConcInit ==
    /\ RingInit({1}, 0)
    /\ rt = RtIdle
    /\ pl = PlOff
    /\ flt = FltOff
    /\ eng = <<>>
    /\ \E max_entries \in {1, 2} :
          cache = CacheNew([max_entries |-> max_entries, ttl_seconds |-> 0,
                            enable_hierarchy |-> TRUE])

ConcNext ==
    \/ \E t \in {1, 2} :
          \/ /\ cache.ops < MaxConcOps
             /\ \/ \E path \in {<<"/", "t", "/", "a">>, <<"/", "t", "/", "s", "/", "b">>} :
                      PeGetMut(t, path)
                \/ CleanupRetain(t, 0)
                \/ \E dir \in {<<"/", "t">>, <<"/", "t", "/", "s">>} : InvRemove(t, dir)
          \/ PeInsert(t)
          \/ PePush(t)
          \/ PeEvictScan(t)
          \/ PeEvictRemove(t)
          \/ PeEvictRetain(t)
          \/ CleanupRetainEntry(t)
          \/ CleanupTidy(t)
          \/ InvFile(t)
          \/ InvRetain(t)
    \/ CacheTick

SpecCacheConc == ConcInit /\ [][ConcNext]_vars

----------------------------------------------------------------------------
(* HashEngine: the choice of the algorithm and the size it reports.  A     *)
(* length is a u64 in four 16-bit limbs.                                   *)

\* const HYBRID_THRESHOLD: usize = 1024 * 1024
HYBRID_THRESHOLD == <<0, 0, 16, 0>>

\* `len >= HYBRID_THRESHOLD`
UseTreeAbove(len) ==
    \/ len[1] > HYBRID_THRESHOLD[1]
    \/ len[1] = HYBRID_THRESHOLD[1] /\ len[2] > HYBRID_THRESHOLD[2]
    \/ len[1] = HYBRID_THRESHOLD[1] /\ len[2] = HYBRID_THRESHOLD[2]
          /\ len[3] > HYBRID_THRESHOLD[3]
    \/ len[1] = HYBRID_THRESHOLD[1] /\ len[2] = HYBRID_THRESHOLD[2]
          /\ len[3] = HYBRID_THRESHOLD[3] /\ len[4] > HYBRID_THRESHOLD[4]

UseTree(len) == UseTreeAbove(len) \/ len = HYBRID_THRESHOLD

\* hash_bytes_blake3: HashResult { size: data.len() as u32, .. }
Blake3Result(len) == [ok |-> TRUE, algorithm |-> "blake3", size |-> AsU32(len)]

\* hash_bytes_xxh3 / hash_file_xxh3: the result of the native hash_buffer /
\* hash_file, whose size is min(len, u32::MAX).
Xxh3Result(len) == [ok |-> TRUE, algorithm |-> "xxh3", size |-> SaturateU32(len)]

\* hash_bytes(data) for data of len bytes; entropy_high is `entropy > 0.8` of
\* hash_bytes_auto.
HashBytes(len, entropy_high) ==
    /\ eng # <<>>
    /\ LET result ==
              CASE eng.strategy = "Blake3Only" -> Blake3Result(len)
                [] eng.strategy = "Xxh3Only" -> Xxh3Result(len)
                [] eng.strategy = "Hybrid" ->
                      IF UseTree(len) THEN Blake3Result(len) ELSE Xxh3Result(len)
                [] eng.strategy = "Auto" ->
                      IF entropy_high \/ UseTree(len) THEN Blake3Result(len) ELSE Xxh3Result(len)
       IN eng' = [eng EXCEPT !.last = [op |-> "hash_bytes", len |-> len, result |-> result]]
    /\ UNCHANGED <<header, slots, writing, inst, efd, config, pushed, popped, counts, writers, rt, pl, flt, cache>>

\* hash_file(path) for a file of len bytes; when fs::metadata fails the call
\* returns Err(InvalidPath) before any algorithm is chosen.
HashFile(len, readable) ==
    /\ eng # <<>>
    /\ LET result ==
              IF ~readable THEN [ok |-> FALSE, algorithm |-> "none", size |-> <<0, 0>>]
              ELSE CASE eng.strategy = "Blake3Only" -> Blake3Result(len)
                     [] eng.strategy = "Xxh3Only" -> Xxh3Result(len)
                     [] eng.strategy \in {"Hybrid", "Auto"} ->
                           IF UseTree(len) THEN Blake3Result(len) ELSE Xxh3Result(len)
       IN eng' = [eng EXCEPT !.last = [op |-> "hash_file", len |-> len, result |-> result]]
    /\ UNCHANGED <<header, slots, writing, inst, efd, config, pushed, popped, counts, writers, rt, pl, flt, cache>>

\* with_strategy(strategy)
HashInit ==
    /\ RingInit({1}, 0)
    /\ rt = RtIdle
    /\ pl = PlOff
    /\ flt = FltOff
    /\ cache = CacheOff
    /\ \E strategy \in {"Blake3Only", "Xxh3Only", "Hybrid", "Auto"} :
          eng = [strategy |-> strategy, last |-> <<>>]

\* Inputs of 0, 1000, 1 MiB - 1, 1 MiB, 2 MiB, 2^32 - 1, 2^32 and 2^32 + 1000 bytes.
HashNext ==
    \E len \in {<<0, 0, 0, 0>>, <<0, 0, 0, 1000>>, <<0, 0, 15, U16Max>>, <<0, 0, 16, 0>>,
                <<0, 0, 32, 0>>, <<0, 0, U16Max, U16Max>>, <<0, 1, 0, 0>>, <<0, 1, 0, 1000>>} :
       \/ \E entropy_high \in BOOLEAN : HashBytes(len, entropy_high)
       \/ \E readable \in BOOLEAN : HashFile(len, readable)

SpecHash == HashInit /\ [][HashNext]_vars

----------------------------------------------------------------------------
(* Properties of the event-processing task *)

\* The timestamps (identities) of a sequence of events.
Ids(events) == [n \in 1..Len(events) |-> events[n].timestamp]

PlFlushing == pl.pc \in {"enrich", "push"}

\* The events of the batch that process_event has not been called for yet.
PlPending ==
    LET from == IF pl.pc = "enrich" THEN pl.k ELSE IF pl.pc = "push" THEN pl.k + 1 ELSE 1
    IN SubSeq(pl.batch, from, Len(pl.batch))

----------------------------------------------------------------------------
(* C13: once the shutdown broadcast has been sent and the task has exited, *)
(* every event it had batched has been enriched and offered to the ring,   *)
(* and the ring's shutdown flag is set.                                    *)
C13_AsStated ==
    (pl.shutdown_sent /\ pl.has_ring /\ pl.pc = "exited")
        => /\ Len(pl.offered) = Len(pl.accepted)
           /\ header.shutdown_flag = 1

----------------------------------------------------------------------------
(* C14: the batch never holds more than batch_size events, and fewer while *)
(* the task waits in select!.  A flush runs only because the batch has     *)
(* just reached batch_size, or because of a tick on a non-empty batch.     *)
(* The events enriched so far followed by those still pending are exactly  *)
(* the events accepted, so each flush covers exactly what was accumulated  *)
(* since the one before; and a flush ends with an empty batch.             *)
C14_BatchBounded ==
    /\ [](/\ Len(pl.batch) <= BatchSize
          /\ pl.pc = "select" => (Len(pl.batch) < BatchSize /\ pl.cause = "none")
          /\ PlFlushing => \/ pl.cause = "full" /\ Len(pl.batch) = BatchSize
                           \/ pl.cause = "tick" /\ Len(pl.batch) \in 1..(BatchSize - 1)
          /\ PlRunning => pl.processed \o Ids(PlPending) = pl.accepted)
    /\ [][(PlFlushing /\ pl'.pc = "select")
             => (pl'.batch = <<>> /\ pl'.processed = pl.accepted)]_vars

\* A flush because the batch is full, after an earlier flush.
C14_Witness ==
    /\ pl.pc = "enrich"
    /\ pl.cause = "full"
    /\ pl.k = 1
    /\ Len(pl.processed) >= 1

----------------------------------------------------------------------------
(* C15: the push attempts are made in the order in which the task accepted *)
(* the events from the channel: the events offered so far are the first    *)
(* events accepted, in the same order.                                     *)
C15_SourceOrder ==
    /\ Len(pl.offered) <= Len(pl.accepted)
    /\ \A n \in 1..Len(pl.offered) : pl.offered[n].id = pl.accepted[n]
    /\ \A m, n \in 1..Len(pl.accepted) : m < n => pl.accepted[m] < pl.accepted[n]

\* Three events offered, over at least two flushes.
C15_Witness ==
    /\ Len(pl.offered) >= 3
    /\ pl.offered[3].id > 3

----------------------------------------------------------------------------
(* C16: a push refused because the ring is full is counted in              *)
(* dropped_events and does not end the flush, and a failed hash does not   *)
(* either: whenever the task is back in select!, every event of the        *)
(* batches flushed so far has been enriched once and offered once.         *)
C16_FlushGoesOn ==
    /\ (pl.pc = "select" /\ pl.has_ring)
          => /\ Len(pl.offered) = Len(pl.accepted) - Len(pl.batch)
             /\ Len(pl.processed) = Len(pl.offered)
    /\ (PlRunning /\ pl.has_ring)
          => /\ Cardinality({pl.offered[n].id : n \in 1..Len(pl.offered)}) = Len(pl.offered)
             /\ Idle("prod") =>
                  header.dropped_events = Cardinality({n \in 1..Len(pl.offered) : ~pl.offered[n].ok})

\* The first event of the batch was refused by the full ring, and the second is being pushed.
C16_Witness ==
    /\ pl.pc = "push"
    /\ pl.k = 2
    /\ Len(pl.offered) >= 1
    /\ ~pl.offered[Len(pl.offered)].ok
    /\ header.dropped_events >= 1
    /\ At("prod", "push_load_r")

----------------------------------------------------------------------------
(* C17: the task stops only because the source has ended or because of     *)
(* shutdown.                                                               *)
C17_AsStated ==
    pl.pc = "exited" => pl.exit \in {"closed", "cancelled"}

----------------------------------------------------------------------------
(* Properties of the filter *)

\* The calls, among the first n, that accepted an event for `path`.
AcceptedCalls(path, n) ==
    {m \in 1..n : flt.log[m].event.path = path /\ flt.log[m].verdict = "accept"}

\* The time of the last of them, as an Option.
LastAccepted(path, n) ==
    {flt.log[m].at : m \in {k \in AcceptedCalls(path, n) : \A j \in AcceptedCalls(path, n) : j <= k}}

FltCalled == flt.on /\ Len(flt.log) >= 1

----------------------------------------------------------------------------
----------------------------------------------------------------------------
(* C19: with debounce_ms = D > 0, two consecutive accepted events for one  *)
(* path are at least D ms apart, and an event is rejected by the debounce  *)
(* rule only because of an accepted event for its own path less than D ms  *)
(* earlier.                                                                *)
C19_DebounceSpacing ==
    (FltCalled /\ flt.filter.debounce_ms > 0) =>
        \A n \in 1..Len(flt.log) :
            LET path == flt.log[n].event.path
                earlier == LastAccepted(path, n - 1)
            IN /\ flt.log[n].verdict = "accept"
                    => \A last \in earlier : flt.log[n].at - last >= flt.filter.debounce_ms
               /\ flt.log[n].verdict = "debounce"
                    => \E last \in earlier : flt.log[n].at - last < flt.filter.debounce_ms

\* Two paths accepted 50 ms apart, then the first again 120 ms after its last acceptance.
C19_Witness ==
    /\ Len(flt.log) = 3
    /\ flt.filter.debounce_ms = 100
    /\ flt.log[1].event.path = <<"b">> /\ flt.log[1].verdict = "accept"
    /\ flt.log[2].event.path = <<"a">> /\ flt.log[2].verdict = "accept"
    /\ flt.log[2].at - flt.log[1].at = 50
    /\ flt.log[3].event.path = <<"b">> /\ flt.log[3].verdict = "accept"
    /\ flt.log[3].at - flt.log[1].at = 120

----------------------------------------------------------------------------
(* C20: a call that rejects its event, by whatever rule, leaves            *)
(* last_events as it was, so that with debounce_ms > 0 the time recorded   *)
(* for a path is always the time of its last accepted event.  With         *)
(* debounce_ms = 100, events for one path at t, t + 50 and t + 120 are     *)
(* accepted, rejected and accepted.                                        *)
C20_RejectKeepsWindow ==
    /\ [](FltCalled /\ flt.filter.debounce_ms > 0
            => \A path \in FltPaths : flt.last_events[path] = LastAccepted(path, Len(flt.log)))
    /\ [][(flt.on /\ flt'.log # flt.log /\ flt'.log[Len(flt'.log)].verdict # "accept")
             => flt'.last_events = flt.last_events]_vars
    /\ [](FltCalled /\ flt.filter.debounce_ms = 100 /\ Len(flt.log) = 3
            => LET first == flt.log[1]
                   second == flt.log[2]
                   third == flt.log[3]
               IN (/\ first.verdict = "accept"
                   /\ second.event = first.event /\ second.at = first.at + 50
                   /\ third.event = first.event /\ third.at = first.at + 120)
                  => (second.verdict = "debounce" /\ third.verdict = "accept"))

\* The scenario: accepted, rejected 50 ms later, accepted 120 ms after the first.
C20_Witness ==
    /\ Len(flt.log) = 3
    /\ flt.filter.debounce_ms = 100
    /\ flt.log[1].verdict = "accept"
    /\ flt.log[2].event = flt.log[1].event
    /\ flt.log[2].verdict = "debounce"
    /\ flt.log[2].at = flt.log[1].at + 50
    /\ flt.log[3].event = flt.log[1].event
    /\ flt.log[3].verdict = "accept"
    /\ flt.log[3].at = flt.log[1].at + 120
    /\ flt.last_events[flt.log[1].event.path] = {flt.log[3].at}

----------------------------------------------------------------------------
(* C21: with an empty include set, an event whose path matches no exclude  *)
(* pattern passes the pattern filter of the event-processing task: when    *)
(* the task receives it, it appends it to the batch.                       *)
C21_AsStated ==
    [][(/\ pl.pc = "select"
        /\ pl.missed = 0
        /\ pl.chan # <<>>
        /\ pl'.chan = Tail(pl.chan)
        /\ pl.patterns.include = {}
        /\ \A pattern \in pl.patterns.exclude : ~GlobMatch(pattern, Head(pl.chan).path))
       => pl'.accepted = Append(pl.accepted, Head(pl.chan).timestamp)]_vars

----------------------------------------------------------------------------
(* Properties of the hash cache *)

\* Created/Modified events of files.
IsFileChange(event) == ~event.is_directory /\ event.event_type \in {"Created", "Modified"}

\* The inputs a call of process_event can have in the present state.
CacheCalls == CacheEvents(cache.now, {"Modified"}, {"Deleted"}) \X {0, cache.now + 1}

CacheCount(c) == Cardinality(Present(c.hash_cache))

(* C22: for a Created/Modified file event the stored hash is returned      *)
(* without recomputing exactly when an entry for the path exists, its age  *)
(* (now - created_at) is at most ttl and its created_at is not earlier     *)
(* than the event's timestamp; a hit adds 1 to access_count and changes    *)
(* nothing else in the two maps; otherwise the hash is computed anew.      *)
C22_AsStated ==
    [][\A call \in CacheCalls :
          (ProcessEvent(call[1], call[2]) /\ IsFileChange(call[1]))
          => LET path == call[1].path
                 entry == EntryOf(cache.hash_cache, path)
                 valid == /\ cache.hash_cache[path] # {}
                          /\ cache.now - entry.timestamp
                                <= cache.config.ttl_seconds * TicksPerSecond
                          /\ entry.timestamp >= call[1].timestamp
             IN IF valid
                THEN /\ cache'.last.kind = "hit"
                     /\ cache'.last.hash = entry.hash
                     /\ cache'.hash_cache = [cache.hash_cache EXCEPT ![path] =
                            {[entry EXCEPT !.access_count = @ + 1]}]
                     /\ cache'.directory_cache = cache.directory_cache
                ELSE cache'.last.kind \in {"computed", "failed"}]_vars

----------------------------------------------------------------------------
(* C23: when hash_file fails on a miss or on a stale entry, process_event  *)
(* returns Ok with hash = None and neither map changes: no entry is        *)
(* inserted, and an entry already there stays as it was.                   *)
C23_FailureNotCached ==
    [][\A call \in CacheCalls :
          (/\ ProcessEvent(call[1], call[2])
           /\ IsFileChange(call[1])
           /\ call[2] = 0
           /\ cache'.last.kind # "hit")
          => /\ cache'.last.kind = "failed"
             /\ cache'.last.hash = 0
             /\ cache'.hash_cache = cache.hash_cache
             /\ cache'.directory_cache = cache.directory_cache]_vars

\* A failed recomputation with a stale entry in the cache.
C23_Witness ==
    /\ cache.last.kind = "failed"
    /\ cache.ops = 2
    /\ \E path \in Present(cache.hash_cache) :
          EntryOf(cache.hash_cache, path).timestamp < cache.now

----------------------------------------------------------------------------
\* path lies under dir, at any depth.
Under(path, dir) == StartsWith(path, dir \o <<"/">>)

\* The directory Deleted events that invalidate (hierarchy enabled).
Invalidations ==
    IF cache.config.enable_hierarchy
    THEN {call \in CacheCalls : call[1].is_directory /\ call[1].event_type = "Deleted"}
    ELSE {}

(* C24: after a directory Deleted event for dir, no entry whose path lies  *)
(* under dir (at any depth) remains, and the parent index has no bucket    *)
(* for dir or for a directory under it.                                    *)
C24_AsStated ==
    [][\A call \in Invalidations :
          ProcessEvent(call[1], call[2])
          => /\ \A path \in Present(cache'.hash_cache) : ~Under(path, call[1].path)
             /\ \A dir \in CacheDirs :
                   (dir = call[1].path \/ Under(dir, call[1].path))
                   => cache'.directory_cache[dir] = {}]_vars

----------------------------------------------------------------------------
(* C25: a directory Deleted event for dir leaves unchanged every entry and *)
(* every bucket whose path is neither dir nor under dir followed by a      *)
(* separator.                                                              *)
C25_AsStated ==
    [][\A call \in Invalidations :
          ProcessEvent(call[1], call[2])
          => /\ \A path \in CacheFiles :
                   ~Under(path, call[1].path)
                   => cache'.hash_cache[path] = cache.hash_cache[path]
             /\ \A dir \in CacheDirs :
                   ~(dir = call[1].path \/ Under(dir, call[1].path))
                   => cache'.directory_cache[dir] = cache.directory_cache[dir]]_vars

----------------------------------------------------------------------------
\* How often path is listed in a bucket.
Listed(files, path) == Cardinality({n \in 1..Len(files) : files[n] = path})

(* C26: with hierarchy enabled, every path in the hash cache is listed     *)
(* exactly once in the bucket of its parent.                               *)
C26_AsStated ==
    cache.config.enable_hierarchy
    => \A path \in Present(cache.hash_cache) :
          /\ cache.directory_cache[Parent(path)] # {}
          /\ \A files \in cache.directory_cache[Parent(path)] : Listed(files, path) = 1

----------------------------------------------------------------------------
(* C27 as stated: while a path stays in the cache its access_count never   *)
(* decreases.                                                              *)
C27_AsStated ==
    [][\A path \in Present(cache.hash_cache) \cap Present(cache'.hash_cache) :
          EntryOf(cache'.hash_cache, path).access_count
             >= EntryOf(cache.hash_cache, path).access_count]_vars

(* C27, amended: an entry that stays in the cache is changed in place only *)
(* by a hit, which adds 1 to its access_count; the only other change of a  *)
(* path's entry is its replacement, by a recomputation, with a new entry   *)
(* (timestamp now, access_count 1).                                        *)
C27_EntryCounts ==
    [][\A path \in Present(cache.hash_cache) \cap Present(cache'.hash_cache) :
          LET old == EntryOf(cache.hash_cache, path)
              new == EntryOf(cache'.hash_cache, path)
          IN \/ new = old
             \/ /\ cache'.last.kind = "hit"
                /\ new = [old EXCEPT !.access_count = @ + 1]
             \/ /\ cache'.last.kind = "computed"
                /\ new = [hash |-> cache'.last.hash, timestamp |-> cache.now,
                          access_count |-> 1]]_vars

\* A recomputation has replaced the entry of a path that was in the cache: the
\* path was pushed on its bucket a second time and its count is 1 again.
C27_Witness ==
    /\ cache.last.kind = "computed"
    /\ \E path \in Present(cache.hash_cache) :
          /\ EntryOf(cache.hash_cache, path).access_count = 1
          /\ EntryOf(cache.hash_cache, path).timestamp = cache.now
          /\ \A files \in cache.directory_cache[Parent(path)] : Listed(files, path) = 2
          /\ cache.directory_cache[Parent(path)] # {}

----------------------------------------------------------------------------
(* C28: after cleanup_cache(max_age) no entry older than max_age is left,  *)
(* every entry not older than max_age is there unchanged, a removed path   *)
(* is in no bucket, and no bucket is empty.                                *)
C28_Sweep ==
    [][\A max_age \in {0, TicksPerSecond} :
          CleanupCache(max_age)
          => /\ \A path \in Present(cache.hash_cache) :
                   IF cache.now - EntryOf(cache.hash_cache, path).timestamp > max_age
                   THEN /\ cache'.hash_cache[path] = {}
                        /\ \A dir \in CacheDirs : \A files \in cache'.directory_cache[dir] :
                              Listed(files, path) = 0
                   ELSE cache'.hash_cache[path] = cache.hash_cache[path]
             /\ Present(cache'.hash_cache) \subseteq Present(cache.hash_cache)
             /\ \A dir \in CacheDirs : cache'.directory_cache[dir] # {<<>>}]_vars

\* A sweep that removed one of two entries and kept the other, whose age is
\* exactly max_age or less.
C28_Witness ==
    /\ cache.last.kind = "sweep"
    /\ cache.last.removed = 1
    /\ cache.ops = 3
    /\ CacheCount(cache) = 1
    /\ cache.config.enable_hierarchy

----------------------------------------------------------------------------
\* The entries after the insertion for path, before any eviction.
WithNew(path) ==
    [cache.hash_cache EXCEPT ![path] =
        {[hash |-> cache.now + 1, timestamp |-> cache.now, access_count |-> 1]}]

(* C29: after every call the cache holds at most max_entries entries; an   *)
(* insertion that raises the length len above max_entries is followed by   *)
(* an eviction down to floor(0.8 * max_entries): of some sample of         *)
(* min(len, 2 * (len - target)) entries the len - target with the lowest   *)
(* access_count are removed, and every other entry is untouched.           *)
C29_EvictionBound ==
    [][/\ CacheCount(cache') <= cache.config.max_entries
       /\ \A path \in CacheFiles \ Present(cache.hash_cache) :
             (/\ ProcessEvent([path |-> path, event_type |-> "Modified",
                               is_directory |-> FALSE, timestamp |-> 0], cache.now + 1)
              /\ CacheCount(cache) + 1 > cache.config.max_entries)
             => LET hc == WithNew(path)
                    len == CacheCount(cache) + 1
                    target == (4 * cache.config.max_entries) \div 5
                    removed == Present(hc) \ Present(cache'.hash_cache)
                IN /\ CacheCount(cache') = target
                   /\ Cardinality(removed) = len - target
                   /\ \A kept \in Present(hc) \ removed : cache'.hash_cache[kept] = hc[kept]
                   /\ \E sample \in SUBSET Present(hc) :
                         /\ Cardinality(sample) = Min(len, 2 * (len - target))
                         /\ removed \subseteq sample
                         /\ \A r \in removed, k \in sample \ removed :
                               EntryOf(hc, r).access_count <= EntryOf(hc, k).access_count]_vars

\* An eviction of two of five entries that left an entry with a single access
\* beside entries with more.
C29_Witness ==
    /\ cache.last.kind = "computed"
    /\ cache.last.removed = 2
    /\ CacheCount(cache) = 3
    /\ \E p, q \in Present(cache.hash_cache) :
          /\ EntryOf(cache.hash_cache, p).access_count = 1
          /\ EntryOf(cache.hash_cache, q).access_count > 1

----------------------------------------------------------------------------
(* C30: after every completed call the parent index has no empty bucket.   *)
C30_AsStated == \A dir \in CacheDirs : cache.on => cache.directory_cache[dir] # {<<>>}

----------------------------------------------------------------------------
\* The inputs of process_event over events of every kind.
EnrichCalls == CacheEvents(cache.now, EventTypes, EventTypes) \X {0, cache.now + 1}

(* C32: process_event passes the input event on unchanged; for a directory *)
(* event of a kind other than Deleted and for a file event of kind         *)
(* Deleted, Moved or MetadataChanged it returns no hash and leaves both    *)
(* maps as they were; a directory Deleted event returns no hash and        *)
(* inserts or alters no entry; so the cache is read (hit) or written       *)
(* (entry inserted) only for Created/Modified events of files.             *)
C32_OnlyFileChanges ==
    [][\A call \in EnrichCalls :
          ProcessEvent(call[1], call[2])
          => /\ cache'.last.system_event = call[1]
             /\ ~IsFileChange(call[1])
                => /\ cache'.last.kind = "none"
                   /\ cache'.last.hash = 0
                   /\ \A path \in CacheFiles :
                         cache'.hash_cache[path] \in {cache.hash_cache[path], {}}
             /\ (~IsFileChange(call[1])
                 /\ ~(call[1].is_directory /\ call[1].event_type = "Deleted"))
                => /\ cache'.hash_cache = cache.hash_cache
                   /\ cache'.directory_cache = cache.directory_cache]_vars

\* A Moved event for a file whose entry is in the cache has been processed.
C32_Witness ==
    /\ cache.last.kind = "none"
    /\ cache.last.system_event # <<>>
    /\ cache.last.system_event.event_type = "Moved"
    /\ ~cache.last.system_event.is_directory
    /\ cache.hash_cache[cache.last.system_event.path] # {}
    /\ cache.config.enable_hierarchy

----------------------------------------------------------------------------
\* len >= 1 MiB (2^20 = 16 * 2^16), on the limbs.
AtLeastMiB(len) == len[1] > 0 \/ len[2] > 0 \/ len[3] >= 16

HashCalled == eng # <<>> /\ eng.last # <<>> /\ eng.last.result.ok

----------------------------------------------------------------------------
(* C34: the size of a HashResult is min(len, 2^32 - 1): the length itself  *)
(* below 2^32, and 2^32 - 1 for every longer input.                        *)
C34_AsStated ==
    HashCalled
    => eng.last.result.size =
          IF eng.last.len[1] = 0 /\ eng.last.len[2] = 0
          THEN <<eng.last.len[3], eng.last.len[4]>>
          ELSE <<U16Max, U16Max>>

----------------------------------------------------------------------------
(* C35: max_utilization is a percentage: after any pushes and pops, also   *)
(* once write_pos has wrapped around below read_pos, it lies in 0..100     *)
(* and is at most the fill level of a full ring.                           *)
C35_AsStated == header.max_utilization \in 0..100

----------------------------------------------------------------------------
(* Properties of the metrics *)

RECURSIVE SumOf(_)
SumOf(times) == IF times = <<>> THEN 0 ELSE Head(times) + SumOf(Tail(times))

(* C36: between flushes, events_processed is the number of events          *)
(* process_event returned Ok for, whether or not the ring took them,       *)
(* errors_count the number it failed for (none: it returns Ok on every     *)
(* path), total_processing_time_ns the sum of their processing times, and  *)
(* the average the floor of total / events, or 0 when there were none.     *)
C36_MetricsCount ==
    (pl.pc # "off" /\ ~PlFlushing) =>
        LET m == pl.metrics
            n == Len(pl.processed)
            average == AverageProcessingTimeNs(m)
        IN /\ m.events_processed = n
           /\ m.errors_count = 0
           /\ m.total_processing_time_ns = SumOf(pl.processed)
           /\ n = 0 => average = 0
           /\ n > 0 => /\ average * n <= SumOf(pl.processed)
                       /\ SumOf(pl.processed) < (average + 1) * n

\* Three events were recorded, one of them dropped by the full ring, and the
\* average is rounded down.
C36_Witness ==
    /\ pl.pc = "select"
    /\ pl.metrics.events_processed = 3
    /\ \E j \in DOMAIN pl.offered : ~pl.offered[j].ok
    /\ AverageProcessingTimeNs(pl.metrics) * 3 < pl.metrics.total_processing_time_ns

----------------------------------------------------------------------------
(* C37: no batched event is discarded when the source signals              *)
(* end-of-stream: once the task has left its loop because the channel is   *)
(* closed, every event it appended to the batch has been enriched.         *)
C37_AsStated ==
    (pl.pc = "exited" /\ pl.exit = "closed") => pl.processed = pl.accepted

----------------------------------------------------------------------------
(* C38: create_producer gives a producer only for a configuration whose    *)
(* capacity is not zero and whose slots fit in the mapped region, and no   *)
(* push divides by a zero capacity or writes outside the region.           *)
C38_AsStated ==
    /\ inst["prod"].life = "live"
          => /\ config.ring_capacity # 0
             /\ HeaderSize + config.ring_capacity * EventSize <= config.memory_size
    /\ inst["prod"].life \notin {"panicked", "faulted"}

----------------------------------------------------------------------------
(* C39: with debounce_ms > 0 and the filter called from two threads, two   *)
(* accepted events for one path are at least debounce_ms apart, as if the  *)
(* check and the update of the last accepted time were one atomic step.    *)
C39_AsStated ==
    (flt.on /\ flt.filter.debounce_ms > 0) =>
        \A m, n \in 1..Len(flt.log) :
            (/\ m < n
             /\ flt.log[m].event.path = flt.log[n].event.path
             /\ flt.log[m].verdict = "accept"
             /\ flt.log[n].verdict = "accept")
                => \/ flt.log[n].at - flt.log[m].at >= flt.filter.debounce_ms
                   \/ flt.log[m].at - flt.log[n].at >= flt.filter.debounce_ms

----------------------------------------------------------------------------
(* Properties of the processor under concurrent calls *)

\* The threads in the middle of a call.
Active == {t \in DOMAIN cache.calls : cache.calls[t].pc # "idle"}

\* A measure of what a call has still to do.
Rank(call) ==
    CASE call.pc = "idle" -> 0
      [] call.pc = "insert" -> 100
      [] call.pc = "push" -> 90
      [] call.pc = "evict_scan" -> 80
      [] call.pc = "evict_remove" -> 2 * Cardinality(call.todo)
      [] call.pc = "evict_retain" -> 2 * Cardinality(call.todo) + 1
      [] call.pc \in {"retain_entry", "inv_file"} -> 50 + Cardinality(call.todo)
      [] OTHER -> 50

(* C40: concurrent process_event (with its eviction), cleanup_cache and    *)
(* invalidate_directory calls never deadlock: whenever calls are under     *)
(* way, one of them can take the lock it needs; a call that holds a lock   *)
(* holds hash_cache's and asks for directory_cache's, never the reverse    *)
(* and never the one it holds; and every step of a call brings it closer   *)
(* to its end, so that every call terminates.                              *)
C40_NoDeadlock ==
    /\ [](cache.on =>
            /\ Active # {} => \E t \in Active : Free(cache.calls[t].pc)
            /\ \A t \in Active :
                  Holds(cache.calls[t].pc) # {}
                      => /\ Holds(cache.calls[t].pc) = {"hash_cache"}
                         /\ Lock(cache.calls[t].pc) = "directory_cache")
    /\ [][cache.on =>
            \A t \in DOMAIN cache.calls :
                (cache.calls[t].pc # "idle" /\ cache.calls'[t] # cache.calls[t])
                    => Rank(cache.calls'[t]) < Rank(cache.calls[t])]_vars

\* cleanup_cache holds hash_cache's lock in its closure while invalidate_directory,
\* the bucket already taken out, waits for that lock to remove the bucket's file.
C40_Witness ==
    /\ cache.on
    /\ cache.calls[1].pc = "retain_entry"
    /\ cache.calls[2].pc = "inv_file"
    /\ ~Free(cache.calls[2].pc)
    /\ Free(cache.calls[1].pc)

----------------------------------------------------------------------------
(* C31: with the hierarchy enabled, once every concurrent call has         *)
(* completed, a path is listed in the bucket of its parent exactly when it *)
(* has an entry in the hash cache.                                         *)
C31_AsStated ==
    (cache.on /\ cache.config.enable_hierarchy /\ Active = {}) =>
        \A path \in DOMAIN cache.hash_cache :
            (cache.hash_cache[path] # {})
                <=> \E files \in cache.directory_cache[Parent(path)] : Listed(files, path) >= 1

====
